---- MODULE Spec2Model ----
(***************************************************************************)
(* Client-side transaction coordinator of dingo-sdk                        *)
(* (sdk/transaction/txn_impl.cc, Transaction::TxnImpl).                    *)
(*                                                                         *)
(* One TxnImpl object, its write buffer, the time oracle, the meta cache   *)
(* and the store's answers to TxnPrewrite / TxnCommit / TxnBatchRollback.  *)
(* Every API call is one action up to its parallel fan-out; each sub-task  *)
(* of ParallelExecutor::Execute is one step, taken in any order, and the   *)
(* join that reads the sub-task statuses is the final step of the call.    *)
(***************************************************************************)
EXTENDS Integers, Sequences, FiniteSets, TLC

\* ---------------------------------------------------------------- bounds
NumKeys == 2
NumRegions == 2
NumValues == 1
MaxTs == 3
MaxTxnResults == 2
FLAGS_txn_op_max_retry == 1
FLAGS_txn_max_batch_count == 1
MaxLimit == 2
MaxCursors == 1
ScanBatchSize == 2

Keys == 1..NumKeys
NoKey == 0
Regions == 1..NumRegions
NoRegion == 0
Values == 1..NumValues
NoValue == 0

\* ------------------------------------------------------- TransactionState
kInit == "kInit"
kActive == "kActive"
kPreCommitting == "kPreCommitting"
kPreCommitted == "kPreCommitted"
kCommitting == "kCommitting"
kCommitted == "kCommitted"
kRollbacking == "kRollbacking"
kRollbackted == "kRollbackted"

TransactionStates ==
  {kInit, kActive, kPreCommitting, kPreCommitted, kCommitting, kCommitted, kRollbacking, kRollbackted}

\* ------------------------------------------------------- TxnMutationType
kPut == "kPut"
kDelete == "kDelete"
kPutIfAbsent == "kPutIfAbsent"
kNone == "kNone"

\* ---------------------------------------------------------------- Status
OK == "OK"
IllegalState == "IllegalState"
NotFound == "NotFound"
NetworkError == "NetworkError"
TxnLockConflict == "TxnLockConflict"
TxnWriteConflict == "TxnWriteConflict"
TxnRolledBack == "TxnRolledBack"
Pending == "Pending"                    \* the call has not returned yet

VARIABLES
  state,          \* state_
  start_ts,       \* start_ts_   (0: not assigned)
  commit_ts,      \* commit_ts_  (0: not assigned)
  is_one_pc,      \* is_one_pc_
  mutation_map,   \* buffer_: key -> [type, value], type kNone when absent
  primary_key,    \* buffer_: the primary key, NoKey while nothing was written
  tso,            \* the time oracle: the last timestamp it handed out
  pc,             \* position of the caller: idle, inside a fan-out, or dead
  call,           \* the API call running or last completed
  ret,            \* Status returned by the last completed call
  primary_rpc,    \* the primary-key request built by the call, NoRpc if none
  primary_sends,  \* how many times the call sent primary_rpc
  primary_resp,   \* the last answer to primary_rpc
  sub_tasks,      \* std::vector<TxnSubTask> of the running fan-out
  wc_seen,        \* history: some PreCommit() has returned TxnWriteConflict
  prewritten,     \* history: the keys carried by a TxnPrewrite that succeeded
  wc_trail,       \* history: the calls made since a primary write conflict
  args,           \* arguments of the read call running or last completed
  out_kvs,        \* the pairs that read call has put in its output
  scan_states,    \* scan_states_: the open scan cursors
  last_write      \* history: per key, the latest write call and its value

vars ==
  <<state, start_ts, commit_ts, is_one_pc, mutation_map, primary_key, tso,
    pc, call, ret, primary_rpc, primary_sends, primary_resp, sub_tasks, wc_seen, wc_trail,
    args, out_kvs, scan_states, last_write, prewritten>>

txn_vars == <<state, start_ts, commit_ts, is_one_pc>>
buffer_vars == <<mutation_map, primary_key>>
rpc_vars == <<primary_rpc, primary_sends, primary_resp, sub_tasks>>
read_vars == <<args, out_kvs, scan_states, last_write>>

\* ------------------------------------------------------------- TxnBuffer
NoMutation == [type |-> kNone, value |-> NoValue]

IsEmpty == \A k \in Keys : mutation_map[k].type = kNone

BufferedKeys == {k \in Keys : mutation_map[k].type # kNone}

MutationsSize == Cardinality(BufferedKeys)

GetPrimaryKey == primary_key

\* Emplace: the first key ever inserted becomes the primary key.
Emplace(k, m) ==
  /\ mutation_map' = [mutation_map EXCEPT ![k] = m]
  /\ primary_key' = IF primary_key = NoKey THEN k ELSE primary_key

BufferPut(k, v) == Emplace(k, [type |-> kPut, value |-> v])

BufferPutIfAbsent(k, v) ==
  IF mutation_map[k].type = kNone THEN Emplace(k, [type |-> kPutIfAbsent, value |-> v])
  ELSE IF mutation_map[k].type = kDelete THEN Emplace(k, [type |-> kPut, value |-> v])
  ELSE UNCHANGED buffer_vars

BufferDelete(k) == Emplace(k, [type |-> kDelete, value |-> NoValue])

\* Mutations(): the buffered keys in key order (std::map).
RECURSIVE KeysFrom(_)
KeysFrom(k) ==
  IF k > NumKeys THEN <<>>
  ELSE IF mutation_map[k].type # kNone THEN <<k>> \o KeysFrom(k + 1)
  ELSE KeysFrom(k + 1)

Mutations == KeysFrom(1)

\* ------------------------------------------------------------- MetaCache
\* What the routing cache answers during one API call: for each key its
\* region, or NoRegion when the lookup fails. The cache is refreshed between
\* calls, so every call draws its own; a call looks up buffered keys only.
AllMetaCaches == [Keys -> Regions \cup {NoRegion}]

MetaCaches == {mc \in AllMetaCaches : \A k \in Keys \ BufferedKeys : mc[k] = NoRegion}

LookupRegionByKey(mc, k) == IF k = NoKey THEN NoRegion ELSE mc[k]

\* --------------------------------------------------- answers of the store
\* An answer to one RPC: the send failed, or a response arrived with its
\* txn_result entries (TxnPrewrite: repeated; TxnCommit, TxnBatchRollback:
\* at most one).
PrewriteResultKinds == {"locked_resolved", "locked_unresolved", "write_conflict"}
CommitResultKinds == {"locked", "txn_not_found", "write_conflict"}
RollbackResultKinds == {"locked", "txn_not_found"}

RECURSIVE SeqsUpTo(_, _)
SeqsUpTo(S, n) ==
  IF n = 0 THEN {<<>>}
  ELSE LET prev == SeqsUpTo(S, n - 1)
       IN  prev \cup {Append(s, x) : s \in {p \in prev : Len(p) = n - 1}, x \in S}

SendFail == [sent |-> FALSE, txn_result |-> <<>>]
NoResp == [sent |-> FALSE, txn_result |-> <<"nothing_sent">>]
Response(results) == [sent |-> TRUE, txn_result |-> results]

PrewriteAnswers == {SendFail} \cup {Response(r) : r \in SeqsUpTo(PrewriteResultKinds, MaxTxnResults)}
CommitAnswers == {SendFail} \cup {Response(r) : r \in SeqsUpTo(CommitResultKinds, 1)}
RollbackAnswers == {SendFail} \cup {Response(r) : r \in SeqsUpTo(RollbackResultKinds, 1)}

\* ------------------------------------------------------------ txn_common
CheckTxnResultInfo(txn_result) ==
  IF txn_result \in {"locked", "locked_resolved", "locked_unresolved"} THEN TxnLockConflict
  ELSE IF txn_result = "write_conflict" THEN TxnWriteConflict
  ELSE IF txn_result = "txn_not_found" THEN "TxnNotFound"
  ELSE OK

\* TxnLockResolver::ResolveLock: OK when the foreign lock is gone, otherwise
\* the lock is still alive.
ResolveLock(txn_result) == IF txn_result = "locked_resolved" THEN OK ELSE TxnLockConflict

\* A retry bound that is off by one.
NeedRetryAndIncOffByOne(times) == times <= FLAGS_txn_op_max_retry

NeedRetryAndInc(times) == times < FLAGS_txn_op_max_retry

\* ------------------------------------------------------------- requests
NoRpc ==
  [method |-> "none", region |-> NoRegion, start_ts |-> 0, commit_ts |-> 0,
   primary_lock |-> NoKey, txn_size |-> 0, try_one_pc |-> FALSE, keys |-> <<>>]

\* A prewrite request that names the smallest buffered key as primary lock.
PrepareTxnPrewriteRpcSmallestKey(region) ==
  [method |-> "TxnPrewrite", region |-> region, start_ts |-> start_ts, commit_ts |-> 0,
   primary_lock |-> Mutations[1], txn_size |-> MutationsSize, try_one_pc |-> FALSE, keys |-> <<>>]

PrepareTxnPrewriteRpc(region) ==
  [method |-> "TxnPrewrite", region |-> region, start_ts |-> start_ts, commit_ts |-> 0,
   primary_lock |-> GetPrimaryKey, txn_size |-> MutationsSize, try_one_pc |-> FALSE, keys |-> <<>>]

PrepareTxnCommitRpc(region, cts) ==
  [method |-> "TxnCommit", region |-> region, start_ts |-> start_ts, commit_ts |-> cts,
   primary_lock |-> NoKey, txn_size |-> 0, try_one_pc |-> FALSE, keys |-> <<>>]

PrepareTxnBatchRollbackRpc(region) ==
  [method |-> "TxnBatchRollback", region |-> region, start_ts |-> start_ts, commit_ts |-> 0,
   primary_lock |-> NoKey, txn_size |-> 0, try_one_pc |-> FALSE, keys |-> <<>>]

TxnSubTask(rpc) == [rpc |-> rpc, region |-> rpc.region, status |-> OK, sends |-> 0, done |-> FALSE]

\* ------------------------------------------------- grouping by region
\* A grouping that does not skip the primary key.
SecondaryKeysWithPrimary == Mutations

\* The buffered keys other than the primary key, in buffer order.
SecondaryKeys == SelectSeq(Mutations, LAMBDA k : k # GetPrimaryKey)

Routable(mc, keys) == SelectSeq(keys, LAMBDA k : LookupRegionByKey(mc, k) # NoRegion)

RegionsOf(mc, keys) == {LookupRegionByKey(mc, keys[i]) : i \in DOMAIN keys}

KeysOfRegion(mc, keys, r) == SelectSeq(keys, LAMBDA k : LookupRegionByKey(mc, k) = r)

\* The iteration orders an unordered_map keyed by region id may have.
RegionOrders(S) ==
  {o \in [1..Cardinality(S) -> S] : \A i, j \in 1..Cardinality(S) : o[i] = o[j] => i = j}

RECURSIVE Chunks(_, _)
Chunks(keys, n) ==
  IF keys = <<>> THEN <<>>
  ELSE IF Len(keys) <= n THEN <<keys>>
  ELSE <<SubSeq(keys, 1, n)>> \o Chunks(SubSeq(keys, n + 1, Len(keys)), n)

\* One sub-task per chunk of at most n keys of each region, regions in the
\* given order; prepared is the request Prepare...Rpc builds, less its region.
RECURSIVE SubTasksOf(_, _, _, _, _, _)
SubTasksOf(mc, order, i, keys, n, prepared) ==
  IF i > Len(order) THEN <<>>
  ELSE LET chunks == Chunks(KeysOfRegion(mc, keys, order[i]), n)
           tasks == [c \in DOMAIN chunks |->
                       TxnSubTask([prepared EXCEPT !.region = order[i], !.keys = chunks[c]])]
       IN  tasks \o SubTasksOf(mc, order, i + 1, keys, n, prepared)

\* ------------------------------------------------------------- prewrite
\* TryResolveTxnPrewriteLockConflict taking the status of the lock resolver
\* for the status of the response.
RECURSIVE TryResolveFromResolverStatus(_, _, _)
TryResolveFromResolverStatus(txn_results, i, status) ==
  IF i > Len(txn_results) THEN status
  ELSE LET r == CheckTxnResultInfo(txn_results[i])
       IN  IF r = OK THEN TryResolveFromResolverStatus(txn_results, i + 1, r)
           ELSE IF r = TxnLockConflict
             THEN TryResolveFromResolverStatus(txn_results, i + 1, ResolveLock(txn_results[i]))
           ELSE IF r = TxnWriteConflict THEN r
           ELSE TryResolveFromResolverStatus(txn_results, i + 1, r)

RECURSIVE TryResolveFrom(_, _, _)
TryResolveFrom(txn_results, i, status) ==
  IF i > Len(txn_results) THEN status
  ELSE LET r == CheckTxnResultInfo(txn_results[i])
       IN  IF r = OK THEN TryResolveFrom(txn_results, i + 1, r)
           ELSE IF r = TxnLockConflict
             THEN LET resolve == ResolveLock(txn_results[i])
                  IN  TryResolveFrom(txn_results, i + 1, IF resolve # OK THEN resolve ELSE r)
           ELSE IF r = TxnWriteConflict THEN r
           ELSE TryResolveFrom(txn_results, i + 1, r)

TryResolveTxnPrewriteLockConflict(response) == TryResolveFrom(response.txn_result, 1, OK)

LoopResult(status, sends, resp, fatal) ==
  [ret |-> status, sends |-> sends, resp |-> resp, fatal |-> fatal]

\* The retry loop of PreCommitPrimaryKey over the answers the store gives
\* to the successive sends; retry counts the sends already made.
RECURSIVE PrimaryPrewriteLoop(_, _)
PrimaryPrewriteLoop(answers, retry) ==
  IF retry + 1 > Len(answers) THEN LoopResult(OK, retry + 1, NoResp, FALSE)
  ELSE LET a == answers[retry + 1]
           r == TryResolveTxnPrewriteLockConflict(a)
       IN  IF ~a.sent THEN LoopResult(NetworkError, retry + 1, a, FALSE)
           ELSE IF Len(a.txn_result) > 1 THEN LoopResult(OK, retry + 1, a, TRUE)
           ELSE IF r = OK \/ r = TxnWriteConflict THEN LoopResult(r, retry + 1, a, FALSE)
           ELSE IF NeedRetryAndInc(retry) THEN PrimaryPrewriteLoop(answers, retry + 1)
           ELSE LoopResult(r, retry + 1, a, FALSE)

\* The retry loop of ProcessTxnPrewriteSubTask.
RECURSIVE SubTaskPrewriteLoop(_, _)
SubTaskPrewriteLoop(answers, retry) ==
  IF retry + 1 > Len(answers) THEN LoopResult(OK, retry + 1, NoResp, FALSE)
  ELSE LET a == answers[retry + 1]
           r == TryResolveTxnPrewriteLockConflict(a)
       IN  IF ~a.sent THEN LoopResult(NetworkError, retry + 1, a, FALSE)
           ELSE IF r = OK \/ r = TxnWriteConflict THEN LoopResult(r, retry + 1, a, FALSE)
           ELSE IF NeedRetryAndInc(retry) THEN SubTaskPrewriteLoop(answers, retry + 1)
           ELSE LoopResult(r, retry + 1, a, FALSE)

\* The answer streams a loop consumes to the end.
AnswerStreams ==
  {s \in SeqsUpTo(PrewriteAnswers, FLAGS_txn_op_max_retry + 2) : s # <<>>}

PrimaryPrewriteRuns == {s \in AnswerStreams : PrimaryPrewriteLoop(s, 0).sends = Len(s)}

SubTaskPrewriteRuns == {s \in AnswerStreams : SubTaskPrewriteLoop(s, 0).sends = Len(s)}

IsOneRegionTxn(mc) ==
  /\ \A k \in BufferedKeys : LookupRegionByKey(mc, k) # NoRegion
  /\ \A j, k \in BufferedKeys : LookupRegionByKey(mc, j) = LookupRegionByKey(mc, k)

\* ------------------------------------------------------------------ Init
NoArgs == [keys |-> <<>>, start_key |-> NoKey, end_key |-> NoKey, limit |-> 0]

Init ==
  /\ state = kInit
  /\ start_ts = 0
  /\ commit_ts = 0
  /\ is_one_pc = FALSE
  /\ mutation_map = [k \in Keys |-> NoMutation]
  /\ primary_key = NoKey
  /\ tso = 0
  /\ pc = "idle"
  /\ call = "none"
  /\ ret = OK
  /\ primary_rpc = NoRpc
  /\ primary_sends = 0
  /\ primary_resp = NoResp
  /\ sub_tasks = <<>>
  /\ wc_seen = FALSE
  /\ prewritten = {}
  /\ wc_trail = "none"
  /\ args = NoArgs
  /\ out_kvs = <<>>
  /\ scan_states = {}
  /\ last_write = [k \in Keys |-> NoMutation]

\* A call that is no read leaves no read arguments or output behind.
NoRead ==
  /\ args' = NoArgs
  /\ out_kvs' = <<>>
  /\ UNCHANGED scan_states

\* A call that sends nothing leaves no request behind.
NoRpcs ==
  /\ primary_rpc' = NoRpc
  /\ primary_sends' = 0
  /\ primary_resp' = NoResp
  /\ sub_tasks' = <<>>

\* ----------------------------------------------------------------- Begin
Begin ==
  /\ pc = "idle"
  /\ NoRead
  /\ UNCHANGED last_write
  /\ call' = "Begin"
  /\ \/ /\ tso < MaxTs                       \* GetCurrentTsoTimeStamp ok
        /\ tso' = tso + 1
        /\ start_ts' = tso + 1
        /\ state' = kActive
        /\ ret' = OK
     \/ /\ ret' = NetworkError               \* the oracle is unavailable
        /\ UNCHANGED <<tso, start_ts, state>>
  /\ NoRpcs
  /\ wc_trail' = "none"
  /\ UNCHANGED <<commit_ts, is_one_pc, buffer_vars, pc, wc_seen, prewritten>>

\* ------------------------------------------------ Put, PutIfAbsent, Delete
Put ==
  /\ pc = "idle"
  /\ call' = "Put"
  /\ \E k \in Keys, v \in Values :
       /\ BufferPut(k, v)
       /\ last_write' = [last_write EXCEPT ![k] = [type |-> kPut, value |-> v]]
  /\ NoRead
  /\ ret' = OK
  /\ NoRpcs
  /\ wc_trail' = "none"
  /\ UNCHANGED <<txn_vars, tso, pc, wc_seen, prewritten>>

PutIfAbsent ==
  /\ pc = "idle"
  /\ call' = "PutIfAbsent"
  /\ \E k \in Keys, v \in Values :
       /\ BufferPutIfAbsent(k, v)
       /\ last_write' = [last_write EXCEPT ![k] = [type |-> kPutIfAbsent, value |-> v]]
  /\ NoRead
  /\ ret' = OK
  /\ NoRpcs
  /\ wc_trail' = "none"
  /\ UNCHANGED <<txn_vars, tso, pc, wc_seen, prewritten>>

Delete ==
  /\ pc = "idle"
  /\ call' = "Delete"
  /\ \E k \in Keys :
       /\ BufferDelete(k)
       /\ last_write' = [last_write EXCEPT ![k] = [type |-> kDelete, value |-> NoValue]]
  /\ NoRead
  /\ ret' = OK
  /\ NoRpcs
  /\ wc_trail' = "none"
  /\ UNCHANGED <<txn_vars, tso, pc, wc_seen, prewritten>>

\* ------------------------------------------------------------- PreCommit
\* The request of PreCommitPrimaryKey: the primary key's mutation and, when
\* is_one_pc, every other buffered mutation with try_one_pc set.
PrimaryPrewriteRpc(mc, one_pc) ==
  [PrepareTxnPrewriteRpc(LookupRegionByKey(mc, GetPrimaryKey)) EXCEPT
     !.try_one_pc = one_pc,
     !.keys = IF one_pc THEN <<GetPrimaryKey>> \o SecondaryKeys ELSE <<GetPrimaryKey>>]

\* A join that looks at the statuses of the sub-tasks and returns OK anyway.
FirstFailStatusIgnored(tasks) ==
  IF \E i \in DOMAIN tasks : tasks[i].status # OK THEN OK ELSE OK

\* A join that lets every failed sub-task overwrite the result: the last
\* failure wins.
LastFailStatus(tasks) ==
  IF \E i \in DOMAIN tasks : tasks[i].status # OK
    THEN tasks[CHOOSE i \in DOMAIN tasks :
                 /\ tasks[i].status # OK
                 /\ \A j \in DOMAIN tasks : tasks[j].status # OK => j <= i].status
    ELSE OK

\* "only return first fail status"
FirstFailStatus(tasks) ==
  IF \E i \in DOMAIN tasks : tasks[i].status # OK
    THEN tasks[CHOOSE i \in DOMAIN tasks :
                 /\ tasks[i].status # OK
                 /\ \A j \in 1..(i - 1) : tasks[j].status = OK].status
    ELSE OK

HasWriteConflict(resp) ==
  resp.sent /\ \E i \in DOMAIN resp.txn_result : resp.txn_result[i] = "write_conflict"

PreCommitReturns(status, resp) ==
  /\ ret' = status
  /\ pc' = "idle"
  /\ wc_seen' = (wc_seen \/ status = TxnWriteConflict)
  /\ wc_trail' = IF status = TxnWriteConflict /\ HasWriteConflict(resp) THEN "wc" ELSE "none"

\* DINGO_LOG(FATAL) and a failed CHECK end the process: no call returns.
Fatal ==
  /\ pc' = "aborted"
  /\ ret' = Pending

\* PreCommit() after PreCommitPrimaryKey has run its loop with result res.
PreCommitAfterPrimary(mc, res, one_pc) ==
  \/ /\ res.fatal
     /\ state' = kPreCommitting
     /\ sub_tasks' = <<>>
     /\ Fatal
     /\ wc_trail' = "none"
     /\ UNCHANGED wc_seen
  \/ /\ ~res.fatal
     /\ res.ret # OK
     /\ state' = kPreCommitting
     /\ sub_tasks' = <<>>
     /\ PreCommitReturns(res.ret, res.resp)
  \/ /\ ~res.fatal
     /\ res.ret = OK
     /\ one_pc
     /\ state' = kCommitted
     /\ sub_tasks' = <<>>
     /\ PreCommitReturns(OK, res.resp)
  \/ /\ ~res.fatal
     /\ res.ret = OK
     /\ ~one_pc
     /\ Routable(mc, SecondaryKeys) # SecondaryKeys
     /\ state' = kPreCommitting
     /\ sub_tasks' = <<>>
     /\ PreCommitReturns(NotFound, res.resp)
  \/ /\ ~res.fatal
     /\ res.ret = OK
     /\ ~one_pc
     /\ Routable(mc, SecondaryKeys) = SecondaryKeys
     /\ state' = kPreCommitting
     /\ \E order \in RegionOrders(RegionsOf(mc, SecondaryKeys)) :
          sub_tasks' = SubTasksOf(mc, order, 1, SecondaryKeys, FLAGS_txn_max_batch_count,
                                  PrepareTxnPrewriteRpc(NoRegion))
     /\ pc' = "precommit_exec"
     /\ ret' = Pending
     /\ wc_trail' = "none"
     /\ UNCHANGED wc_seen

\* A PreCommit() without the shortcut for an empty buffer: it looks the
\* regions up and stays in PreCommitting.
PreCommitWithoutEmptyShortcut(mc) ==
  /\ state' = kPreCommitting
  /\ is_one_pc' = IsOneRegionTxn(mc)
  /\ NoRpcs
  /\ PreCommitReturns(IF IsEmpty THEN OK ELSE NotFound, NoResp)

PreCommitWith(mc) ==
  \/ /\ IsEmpty
     /\ state' = kPreCommitted
     /\ NoRpcs
     /\ PreCommitReturns(OK, NoResp)
     /\ UNCHANGED is_one_pc
  \/ /\ ~IsEmpty
     /\ is_one_pc' = IsOneRegionTxn(mc)
     /\ LookupRegionByKey(mc, GetPrimaryKey) = NoRegion
     /\ state' = kPreCommitting
     /\ NoRpcs
     /\ PreCommitReturns(NotFound, NoResp)
  \/ /\ ~IsEmpty
     /\ is_one_pc' = IsOneRegionTxn(mc)
     /\ LookupRegionByKey(mc, GetPrimaryKey) # NoRegion
     /\ \E run \in PrimaryPrewriteRuns :
          LET res == PrimaryPrewriteLoop(run, 0)
          IN  /\ primary_rpc' = PrimaryPrewriteRpc(mc, IsOneRegionTxn(mc))
              /\ primary_sends' = res.sends
              /\ primary_resp' = res.resp
              /\ PreCommitAfterPrimary(mc, res, IsOneRegionTxn(mc))

\* The keys of the primary TxnPrewrite when its loop ended on a response
\* without txn_result, which is when PreCommitPrimaryKey returns OK.
PrewrittenByPrimary ==
  IF primary_rpc.method = "TxnPrewrite" /\ primary_resp = Response(<<>>)
    THEN {primary_rpc.keys[j] : j \in DOMAIN primary_rpc.keys}
    ELSE {}

PreCommit ==
  /\ pc = "idle"
  /\ NoRead
  /\ UNCHANGED last_write
  /\ call' = "PreCommit"
  /\ UNCHANGED <<start_ts, commit_ts, buffer_vars, tso>>
  /\ \E mc \in MetaCaches : PreCommitWith(mc)
  /\ prewritten' = prewritten \cup PrewrittenByPrimary'

SubTaskDone(i, status, sends) ==
  sub_tasks' = [sub_tasks EXCEPT ![i] = [@ EXCEPT !.status = status, !.sends = sends, !.done = TRUE]]

ProcessTxnPrewriteSubTask(i) ==
  /\ pc = "precommit_exec"
  /\ UNCHANGED read_vars
  /\ ~sub_tasks[i].done
  /\ \E run \in SubTaskPrewriteRuns :
       LET res == SubTaskPrewriteLoop(run, 0)
       IN  /\ SubTaskDone(i, res.ret, res.sends)
           /\ prewritten' = IF res.ret = OK
                              THEN prewritten \cup {sub_tasks[i].rpc.keys[j] :
                                                      j \in DOMAIN sub_tasks[i].rpc.keys}
                              ELSE prewritten
  /\ UNCHANGED <<txn_vars, buffer_vars, tso, pc, call, ret,
                 primary_rpc, primary_sends, primary_resp, wc_seen, wc_trail>>

\* "check execute result", after ParallelExecutor::Execute has joined.
PreCommitJoin ==
  /\ pc = "precommit_exec"
  /\ UNCHANGED read_vars
  /\ \A i \in DOMAIN sub_tasks : sub_tasks[i].done
  /\ LET result == FirstFailStatus(sub_tasks)
     IN  /\ state' = IF result = OK THEN kPreCommitted ELSE state
         /\ ret' = result
         /\ wc_seen' = (wc_seen \/ result = TxnWriteConflict)
  /\ UNCHANGED prewritten
  /\ pc' = "idle"
  /\ sub_tasks' = <<>>
  /\ UNCHANGED <<start_ts, commit_ts, is_one_pc, buffer_vars, tso, call,
                 primary_rpc, primary_sends, primary_resp, wc_trail>>

\* ---------------------------------------------------------------- Commit
FATAL == "FATAL"

\* Status of a TxnCommitResponse, or FATAL where the code logs at FATAL level.
ProcessTxnCommitResponse(response, is_primary) ==
  IF response.txn_result = <<>> THEN OK
  ELSE LET txn_result == response.txn_result[1]
       IN  IF txn_result = "locked" THEN FATAL
           ELSE IF txn_result = "txn_not_found" THEN FATAL
           ELSE IF txn_result = "write_conflict"
             THEN IF ~is_primary THEN FATAL ELSE TxnRolledBack
           ELSE OK

\* CommitPrimaryKey reading its response as that of a secondary key.
CommitPrimaryKeyAsSecondary(a) ==
  IF ~a.sent THEN NetworkError ELSE ProcessTxnCommitResponse(a, FALSE)

\* CommitPrimaryKey taking a TxnCommit that could not be sent for a success.
CommitPrimaryKeyIgnoringSendFailure(a) ==
  IF ~a.sent THEN OK ELSE ProcessTxnCommitResponse(a, TRUE)

\* CommitPrimaryKey() with the store's answer a to the one TxnCommit it sends.
CommitPrimaryKey(a) == IF ~a.sent THEN NetworkError ELSE ProcessTxnCommitResponse(a, TRUE)

\* Commit() from the call of CommitPrimaryKey on, commit_ts_ being cts.
CommitAfterTso(mc, cts) ==
  \/ /\ LookupRegionByKey(mc, GetPrimaryKey) = NoRegion
     /\ state' = kCommitting
     /\ ret' = NotFound
     /\ NoRpcs
     /\ UNCHANGED pc
  \/ /\ LookupRegionByKey(mc, GetPrimaryKey) # NoRegion
     /\ \E a \in CommitAnswers :
          /\ primary_rpc' = [PrepareTxnCommitRpc(LookupRegionByKey(mc, GetPrimaryKey), cts)
                               EXCEPT !.keys = <<GetPrimaryKey>>]
          /\ primary_sends' = 1
          /\ primary_resp' = a
          /\ \/ /\ CommitPrimaryKey(a) = FATAL
                /\ state' = kCommitting
                /\ sub_tasks' = <<>>
                /\ Fatal
             \/ /\ CommitPrimaryKey(a) = TxnRolledBack
                /\ state' = kRollbackted
                /\ ret' = TxnRolledBack
                /\ sub_tasks' = <<>>
                /\ UNCHANGED pc
             \/ /\ CommitPrimaryKey(a) \notin {OK, FATAL, TxnRolledBack}
                /\ state' = kCommitting
                /\ ret' = CommitPrimaryKey(a)
                /\ sub_tasks' = <<>>
                /\ UNCHANGED pc
             \/ /\ CommitPrimaryKey(a) = OK
                /\ state' = kCommitted
                /\ \E order \in RegionOrders(RegionsOf(mc, Routable(mc, SecondaryKeys))) :
                     sub_tasks' = SubTasksOf(mc, order, 1, Routable(mc, SecondaryKeys),
                                             FLAGS_txn_max_batch_count,
                                             PrepareTxnCommitRpc(NoRegion, cts))
                /\ pc' = "commit_exec"
                /\ ret' = Pending

\* Commit() without the early return on kCommitted.
CommitIsNoOpNever(st) == st = kCommitted /\ st = kInit

\* "if (state_ == kCommitted) return OK"
CommitIsNoOp(st) == st = kCommitted

\* Commit() accepting a transaction whose PreCommit() has not succeeded.
CommitAllowedInPreCommitting(st) == st = kPreCommitted \/ st = kPreCommitting

\* "else if (state_ != kPreCommitted) return IllegalState"
CommitAllowed(st) == st = kPreCommitted

Commit ==
  /\ pc = "idle"
  /\ NoRead
  /\ UNCHANGED last_write
  /\ call' = "Commit"
  /\ wc_trail' = IF wc_trail = "wc" THEN "wc_commit" ELSE "none"
  /\ UNCHANGED <<start_ts, is_one_pc, buffer_vars, wc_seen, prewritten>>
  /\ \/ /\ CommitIsNoOp(state)
        /\ ret' = OK
        /\ NoRpcs
        /\ UNCHANGED <<state, commit_ts, tso, pc>>
     \/ /\ ~CommitIsNoOp(state)
        /\ ~CommitAllowed(state)
        /\ ret' = IllegalState
        /\ NoRpcs
        /\ UNCHANGED <<state, commit_ts, tso, pc>>
     \/ /\ ~CommitIsNoOp(state)
        /\ CommitAllowed(state)
        /\ IsEmpty
        /\ state' = kCommitted
        /\ ret' = OK
        /\ NoRpcs
        /\ UNCHANGED <<commit_ts, tso, pc>>
     \/ /\ ~CommitIsNoOp(state)
        /\ CommitAllowed(state)
        /\ ~IsEmpty
        /\ state' = kCommitting              \* GetCurrentTsoTimeStamp fails
        /\ ret' = NetworkError
        /\ NoRpcs
        /\ UNCHANGED <<commit_ts, tso, pc>>
     \/ /\ ~CommitIsNoOp(state)
        /\ CommitAllowed(state)
        /\ ~IsEmpty
        /\ tso < MaxTs
        /\ tso' = tso + 1
        /\ commit_ts' = tso + 1
        /\ IF tso + 1 > start_ts
             THEN \E mc \in MetaCaches : CommitAfterTso(mc, tso + 1)
             ELSE /\ state' = kCommitting    \* CHECK(commit_ts_ > start_ts_)
                  /\ NoRpcs
                  /\ Fatal

ProcessTxnCommitSubTask(i) ==
  /\ pc = "commit_exec"
  /\ UNCHANGED read_vars
  /\ ~sub_tasks[i].done
  /\ \E a \in CommitAnswers :
       LET status == IF ~a.sent THEN NetworkError ELSE ProcessTxnCommitResponse(a, TRUE)
       IN  IF status = FATAL
             THEN /\ pc' = "aborted"
                  /\ SubTaskDone(i, OK, 1)
             ELSE /\ SubTaskDone(i, status, 1)
                  /\ UNCHANGED pc
  /\ UNCHANGED <<txn_vars, buffer_vars, tso, call, ret,
                 primary_rpc, primary_sends, primary_resp, wc_seen, prewritten, wc_trail>>

\* The statuses of the secondary commits are logged and dropped; Commit()
\* returns the status of CommitPrimaryKey, which was OK.
CommitJoin ==
  /\ pc = "commit_exec"
  /\ UNCHANGED read_vars
  /\ \A i \in DOMAIN sub_tasks : sub_tasks[i].done
  /\ ret' = OK
  /\ pc' = "idle"
  /\ sub_tasks' = <<>>
  /\ UNCHANGED <<txn_vars, buffer_vars, tso, call,
                 primary_rpc, primary_sends, primary_resp, wc_seen, prewritten, wc_trail>>

\* -------------------------------------------------------------- Rollback
\* A primary rollback that treats a locked answer as success.
RollbackPrimaryKeyIgnoringLocked(a) == IF ~a.sent THEN NetworkError ELSE OK

\* Status of the primary key's TxnBatchRollback given the store's answer a:
\* a failed send is returned, and of the txn_result kinds only locked is.
RollbackPrimaryKey(a) ==
  IF ~a.sent THEN NetworkError
  ELSE IF a.txn_result = <<"locked">> THEN TxnLockConflict
  ELSE OK

RollbackWith(mc) ==
  \/ /\ LookupRegionByKey(mc, GetPrimaryKey) = NoRegion
     /\ state' = kRollbacking
     /\ ret' = NotFound
     /\ NoRpcs
     /\ UNCHANGED pc
  \/ /\ LookupRegionByKey(mc, GetPrimaryKey) # NoRegion
     /\ \E a \in RollbackAnswers :
          /\ primary_rpc' = [PrepareTxnBatchRollbackRpc(LookupRegionByKey(mc, GetPrimaryKey))
                               EXCEPT !.keys = IF is_one_pc THEN <<GetPrimaryKey>> \o SecondaryKeys
                                               ELSE <<GetPrimaryKey>>]
          /\ primary_sends' = 1
          /\ primary_resp' = a
          /\ \/ /\ RollbackPrimaryKey(a) # OK
                /\ state' = kRollbacking
                /\ ret' = RollbackPrimaryKey(a)
                /\ sub_tasks' = <<>>
                /\ UNCHANGED pc
             \/ /\ RollbackPrimaryKey(a) = OK
                /\ state' = kRollbackted
                /\ \/ /\ is_one_pc \/ RegionsOf(mc, Routable(mc, SecondaryKeys)) = {}
                      /\ ret' = OK
                      /\ sub_tasks' = <<>>
                      /\ UNCHANGED pc
                   \/ /\ ~is_one_pc
                      /\ \E order \in RegionOrders(RegionsOf(mc, Routable(mc, SecondaryKeys))) :
                           /\ order # <<>>
                           /\ sub_tasks' = SubTasksOf(mc, order, 1, Routable(mc, SecondaryKeys),
                                                      NumKeys, PrepareTxnBatchRollbackRpc(NoRegion))
                      /\ pc' = "rollback_exec"
                      /\ ret' = Pending

\* The guard of Rollback() with kActive let through.
RollbackAllowedFromActive(st) ==
  st = kRollbacking \/ st = kPreCommitting \/ st = kPreCommitted \/ st = kActive

\* "if (state_ != kRollbacking && state_ != kPreCommitting && state_ != kPreCommitted)"
RollbackAllowed(st) == st = kRollbacking \/ st = kPreCommitting \/ st = kPreCommitted

Rollback ==
  /\ pc = "idle"
  /\ NoRead
  /\ UNCHANGED last_write
  /\ call' = "Rollback"
  /\ wc_trail' = IF wc_trail = "wc" THEN "wc_rollback"
                 ELSE IF wc_trail = "wc_commit" THEN "wc_commit_rollback"
                 ELSE "none"
  /\ UNCHANGED <<start_ts, commit_ts, is_one_pc, buffer_vars, tso, wc_seen, prewritten>>
  /\ \/ /\ ~RollbackAllowed(state)
        /\ ret' = IllegalState
        /\ NoRpcs
        /\ UNCHANGED <<state, pc>>
     \/ /\ RollbackAllowed(state)
        /\ \E mc \in MetaCaches : RollbackWith(mc)

ProcessBatchRollbackSubTask(i) ==
  /\ pc = "rollback_exec"
  /\ UNCHANGED read_vars
  /\ ~sub_tasks[i].done
  /\ \E a \in RollbackAnswers :
       SubTaskDone(i, IF ~a.sent THEN NetworkError
                      ELSE IF a.txn_result = <<"locked">> THEN TxnLockConflict
                      ELSE OK, 1)
  /\ UNCHANGED <<txn_vars, buffer_vars, tso, pc, call, ret,
                 primary_rpc, primary_sends, primary_resp, wc_seen, prewritten, wc_trail>>

\* A Rollback() that returns the first failure of its secondary sub-tasks.
RollbackJoinReturningFailures ==
  /\ pc = "rollback_exec"
  /\ UNCHANGED read_vars
  /\ \A i \in DOMAIN sub_tasks : sub_tasks[i].done
  /\ ret' = FirstFailStatus(sub_tasks)
  /\ pc' = "idle"
  /\ sub_tasks' = <<>>
  /\ UNCHANGED <<txn_vars, buffer_vars, tso, call,
                 primary_rpc, primary_sends, primary_resp, wc_seen, prewritten, wc_trail>>

RollbackJoin ==
  /\ pc = "rollback_exec"
  /\ UNCHANGED read_vars
  /\ \A i \in DOMAIN sub_tasks : sub_tasks[i].done
  /\ ret' = OK
  /\ pc' = "idle"
  /\ sub_tasks' = <<>>
  /\ UNCHANGED <<txn_vars, buffer_vars, tso, call,
                 primary_rpc, primary_sends, primary_resp, wc_seen, prewritten, wc_trail>>

\* ------------------------------------------------------------------- Get
\* The value the store holds for a key it has; NoValue is the empty value.
ServerValue == NumValues + 1

GetResultKinds == {"locked_resolved", "locked_unresolved", "write_conflict"}

\* An answer to a TxnGet: the send failed, or a response arrived with a
\* txn_result or with a value that may be empty.
GetAnswers ==
  {[sent |-> FALSE, txn_result |-> <<>>, value |-> NoValue]}
    \cup {[sent |-> TRUE, txn_result |-> <<>>, value |-> v] : v \in {NoValue, ServerValue}}
    \cup {[sent |-> TRUE, txn_result |-> <<r>>, value |-> NoValue] : r \in GetResultKinds}

PrepareTxnGetRpc(region) ==
  [method |-> "TxnGet", region |-> region, start_ts |-> start_ts, commit_ts |-> 0,
   primary_lock |-> NoKey, txn_size |-> 0, try_one_pc |-> FALSE, keys |-> <<>>]

\* A DoTxnGet loop that goes on to the next send whatever ResolveLock said.
RECURSIVE DoTxnGetLoopIgnoringResolver(_, _)
DoTxnGetLoopIgnoringResolver(answers, retry) ==
  IF retry + 1 > Len(answers) THEN LoopResult(OK, retry + 1, NoResp, FALSE)
  ELSE LET a == answers[retry + 1]
           r == IF a.txn_result # <<>> THEN CheckTxnResultInfo(a.txn_result[1]) ELSE OK
       IN  IF ~a.sent THEN LoopResult(NetworkError, retry + 1, a, FALSE)
           ELSE IF r = OK THEN LoopResult(OK, retry + 1, a, FALSE)
           ELSE IF r = TxnLockConflict
             THEN IF NeedRetryAndInc(retry) THEN DoTxnGetLoopIgnoringResolver(answers, retry + 1)
                  ELSE LoopResult(OK, retry + 1, a, FALSE)
           ELSE LoopResult(r, retry + 1, a, FALSE)

\* The retry loop of DoTxnGet.  ret is OK at the top of every pass; after a
\* lock conflict it holds the status of ResolveLock, so a loop that runs out
\* of retries on a resolved lock leaves with OK and the locked response.
RECURSIVE DoTxnGetLoop(_, _)
DoTxnGetLoop(answers, retry) ==
  IF retry + 1 > Len(answers) THEN LoopResult(OK, retry + 1, NoResp, FALSE)
  ELSE LET a == answers[retry + 1]
           r == IF a.txn_result # <<>> THEN CheckTxnResultInfo(a.txn_result[1]) ELSE OK
       IN  IF ~a.sent THEN LoopResult(NetworkError, retry + 1, a, FALSE)
           ELSE IF r = OK THEN LoopResult(OK, retry + 1, a, FALSE)
           ELSE IF r = TxnLockConflict
             THEN IF ResolveLock(a.txn_result[1]) # OK
                    THEN LoopResult(ResolveLock(a.txn_result[1]), retry + 1, a, FALSE)
                  ELSE IF NeedRetryAndInc(retry) THEN DoTxnGetLoop(answers, retry + 1)
                  ELSE LoopResult(OK, retry + 1, a, FALSE)
           ELSE LoopResult(r, retry + 1, a, FALSE)

DoTxnGetRuns ==
  {s \in SeqsUpTo(GetAnswers, FLAGS_txn_op_max_retry + 2) :
     s # <<>> /\ DoTxnGetLoop(s, 0).sends = Len(s)}

\* What DoTxnGet returns after its loop: an empty value reads as NotFound.
DoTxnGetResult(res) ==
  IF res.ret # OK THEN [ret |-> res.ret, value |-> NoValue]
  ELSE IF res.resp.value = NoValue THEN [ret |-> NotFound, value |-> NoValue]
  ELSE [ret |-> OK, value |-> res.resp.value]

\* A Get() that falls back to NotFound for a buffered PutIfAbsent.
GetBufferedPutOnly(mutation) ==
  IF mutation.type = kPut THEN [ret |-> OK, value |-> mutation.value]
  ELSE [ret |-> NotFound, value |-> NoValue]

\* Get() on a key the buffer holds, by the type of its mutation.
GetBuffered(mutation) ==
  IF mutation.type = kPut THEN [ret |-> OK, value |-> mutation.value]
  ELSE IF mutation.type = kDelete THEN [ret |-> NotFound, value |-> NoValue]
  ELSE [ret |-> OK, value |-> mutation.value]

KVPairs(k, r) == IF r.ret = OK THEN <<[key |-> k, value |-> r.value]>> ELSE <<>>

Get ==
  /\ pc = "idle"
  /\ call' = "Get"
  /\ wc_trail' = "none"
  /\ UNCHANGED <<txn_vars, buffer_vars, tso, pc, wc_seen, prewritten, scan_states, last_write>>
  /\ \E k \in Keys :
       /\ args' = [NoArgs EXCEPT !.keys = <<k>>]
       /\ \/ /\ mutation_map[k].type # kNone          \* buffer_->Get(key) is OK
             /\ ret' = GetBuffered(mutation_map[k]).ret
             /\ out_kvs' = KVPairs(k, GetBuffered(mutation_map[k]))
             /\ NoRpcs
          \/ /\ mutation_map[k].type = kNone
             /\ ret' = NotFound                        \* LookupRegionByKey fails
             /\ out_kvs' = <<>>
             /\ NoRpcs
          \/ /\ mutation_map[k].type = kNone
             /\ \E region \in Regions, run \in DoTxnGetRuns :
                  LET res == DoTxnGetLoop(run, 0)
                  IN  /\ primary_rpc' = [PrepareTxnGetRpc(region) EXCEPT !.keys = <<k>>]
                      /\ primary_sends' = res.sends
                      /\ primary_resp' = [sent |-> res.resp.sent,
                                          txn_result |-> res.resp.txn_result]
                      /\ sub_tasks' = <<>>
                      /\ ret' = DoTxnGetResult(res).ret
                      /\ out_kvs' = KVPairs(k, DoTxnGetResult(res))

\* The elements of a set of keys in key order.
RECURSIVE SeqOfSet(_)
SeqOfSet(S) ==
  IF S = {} THEN <<>>
  ELSE LET k == CHOOSE x \in S : \A y \in S : x <= y
       IN  <<k>> \o SeqOfSet(S \ {k})

\* -------------------------------------------------------------- BatchGet
\* The key lists a BatchGet() is called with.
BatchGetInputs == SeqsUpTo(Keys, NumKeys)

PrepareTxnBatchGetRpc(region) ==
  [method |-> "TxnBatchGet", region |-> region, start_ts |-> start_ts, commit_ts |-> 0,
   primary_lock |-> NoKey, txn_size |-> 0, try_one_pc |-> FALSE, keys |-> <<>>]

\* The kvs a TxnBatchGetResponse can hold for the requested keys: for each
\* key no pair, a pair with an empty value, or a pair with the stored value.
ResponseKvs(keys) ==
  LET ks == SeqOfSet({keys[i] : i \in DOMAIN keys})
  IN  {SelectSeq([i \in DOMAIN ks |-> [key |-> ks[i], value |-> f[ks[i]]]],
                 LAMBDA kv : kv.value # 0 - 1) :
         f \in [{ks[i] : i \in DOMAIN ks} -> {0 - 1, NoValue, ServerValue}]}

\* An answer to a TxnBatchGet: the send failed, or a response arrived with a
\* txn_result or with kvs.
BatchGetAnswers(keys) ==
  {[sent |-> FALSE, txn_result |-> <<>>, kvs |-> <<>>]}
    \cup {[sent |-> TRUE, txn_result |-> <<>>, kvs |-> kvs] : kvs \in ResponseKvs(keys)}
    \cup {[sent |-> TRUE, txn_result |-> <<r>>, kvs |-> <<>>] : r \in GetResultKinds}

\* The retry loop of ProcessTxnBatchGetSubTask; res holds the status of
\* ResolveLock after a lock conflict, as ret does in DoTxnGet.
RECURSIVE BatchGetLoop(_, _)
BatchGetLoop(answers, retry) ==
  IF retry + 1 > Len(answers) THEN LoopResult(OK, retry + 1, NoResp, FALSE)
  ELSE LET a == answers[retry + 1]
           r == IF a.txn_result # <<>> THEN CheckTxnResultInfo(a.txn_result[1]) ELSE OK
       IN  IF ~a.sent THEN LoopResult(NetworkError, retry + 1, a, FALSE)
           ELSE IF r = OK THEN LoopResult(OK, retry + 1, a, FALSE)
           ELSE IF r = TxnLockConflict
             THEN IF ResolveLock(a.txn_result[1]) # OK
                    THEN LoopResult(ResolveLock(a.txn_result[1]), retry + 1, a, FALSE)
                  ELSE IF NeedRetryAndInc(retry) THEN BatchGetLoop(answers, retry + 1)
                  ELSE LoopResult(OK, retry + 1, a, FALSE)
           ELSE LoopResult(r, retry + 1, a, FALSE)

BatchGetRuns(keys) ==
  {s \in SeqsUpTo(BatchGetAnswers(keys), FLAGS_txn_op_max_retry + 2) :
     s # <<>> /\ BatchGetLoop(s, 0).sends = Len(s)}

\* "if (res.ok())": the pairs of the response whose value is not empty.
ResultKvs(res) ==
  IF res.ret = OK THEN SelectSeq(res.resp.kvs, LAMBDA kv : kv.value # NoValue) ELSE <<>>

\* A BatchGet() that returns the buffered Put mutations only.
BufferedKVPutOnly(k) ==
  IF mutation_map[k].type = kPut THEN <<[key |-> k, value |-> mutation_map[k].value]>>
  ELSE <<>>

\* The switch of BatchGet() on a buffered key: its pair for kPut and
\* kPutIfAbsent, nothing for kDelete.
BufferedKV(k) ==
  IF mutation_map[k].type \in {kPut, kPutIfAbsent}
    THEN <<[key |-> k, value |-> mutation_map[k].value]>>
  ELSE <<>>

RECURSIVE ToReturn(_)
ToReturn(keys) ==
  IF keys = <<>> THEN <<>>
  ELSE IF mutation_map[Head(keys)].type # kNone THEN BufferedKV(Head(keys)) \o ToReturn(Tail(keys))
  ELSE ToReturn(Tail(keys))

NotFoundKeys(keys) == SelectSeq(keys, LAMBDA k : mutation_map[k].type = kNone)

\* The sub-tasks of DoTxnBatchGet: one per region, with every key of it;
\* txn_result is the txn_result of the last response the sub-task received.
BatchGetSubTasks(mc, order, keys) ==
  LET tasks == SubTasksOf(mc, order, 1, keys, Len(keys), PrepareTxnBatchGetRpc(NoRegion))
  IN  [t \in DOMAIN tasks |->
         [rpc |-> tasks[t].rpc, region |-> tasks[t].region, status |-> OK, sends |-> 0,
          done |-> FALSE, result_kvs |-> <<>>, txn_result |-> <<>>]]

\* BatchGet() up to ParallelExecutor::Execute.
BatchGet ==
  /\ pc = "idle"
  /\ call' = "BatchGet"
  /\ wc_trail' = "none"
  /\ UNCHANGED <<txn_vars, buffer_vars, tso, wc_seen, prewritten, scan_states, last_write>>
  /\ primary_rpc' = NoRpc
  /\ primary_sends' = 0
  /\ primary_resp' = NoResp
  /\ \E keys \in BatchGetInputs :
       /\ args' = [NoArgs EXCEPT !.keys = keys]
       /\ out_kvs' = ToReturn(keys)
       /\ \/ /\ NotFoundKeys(keys) = <<>>
             /\ sub_tasks' = <<>>
             /\ ret' = OK
             /\ pc' = "idle"
          \/ /\ NotFoundKeys(keys) # <<>>
             /\ \E mc \in AllMetaCaches :
                  IF Routable(mc, NotFoundKeys(keys)) # NotFoundKeys(keys)
                    THEN /\ sub_tasks' = <<>>          \* "return got"
                         /\ ret' = NotFound
                         /\ pc' = "idle"
                    ELSE /\ \E order \in RegionOrders(RegionsOf(mc, NotFoundKeys(keys))) :
                              sub_tasks' = BatchGetSubTasks(mc, order, NotFoundKeys(keys))
                         /\ ret' = Pending
                         /\ pc' = "batchget_exec"

ProcessTxnBatchGetSubTask(i) ==
  /\ pc = "batchget_exec"
  /\ ~sub_tasks[i].done
  /\ \E run \in BatchGetRuns(sub_tasks[i].rpc.keys) :
       LET res == BatchGetLoop(run, 0)
       IN  sub_tasks' = [sub_tasks EXCEPT ![i] = [@ EXCEPT !.status = res.ret,
                                                           !.sends = res.sends,
                                                           !.done = TRUE,
                                                           !.result_kvs = ResultKvs(res),
                                                           !.txn_result = res.resp.txn_result]]
  /\ UNCHANGED <<txn_vars, buffer_vars, tso, pc, call, ret, primary_rpc, primary_sends,
                 primary_resp, wc_seen, prewritten, wc_trail, read_vars>>

\* The result_kvs of the sub-tasks that succeeded, in sub-task order.
RECURSIVE TmpKvs(_, _)
TmpKvs(tasks, i) ==
  IF i > Len(tasks) THEN <<>>
  ELSE IF tasks[i].status = OK THEN tasks[i].result_kvs \o TmpKvs(tasks, i + 1)
  ELSE TmpKvs(tasks, i + 1)

\* DoTxnBatchGet after the join, and the end of BatchGet().
BatchGetJoin ==
  /\ pc = "batchget_exec"
  /\ \A i \in DOMAIN sub_tasks : sub_tasks[i].done
  /\ ret' = FirstFailStatus(sub_tasks)
  /\ out_kvs' = out_kvs \o TmpKvs(sub_tasks, 1)
  /\ pc' = "idle"
  /\ UNCHANGED <<txn_vars, buffer_vars, tso, call, primary_rpc, primary_sends, primary_resp,
                 sub_tasks, wc_seen, prewritten, wc_trail, args, scan_states, last_write>>

\* ------------------------------------------------------------------ Scan
InvalidArgument == "InvalidArgument"

\* Keys as range bounds: NoKey is the empty key, NumKeys + 1 a key behind
\* every key of the model.
ScanBounds == 0..(NumKeys + 1)
ScanLimits == 0..MaxLimit

\* TxnBuffer::Range: the buffered mutations with start <= key < end, in key
\* order.
Range(start, end) ==
  LET ks == SeqOfSet({k \in BufferedKeys : start <= k /\ k < end})
  IN  [i \in DOMAIN ks |-> [key |-> ks[i], type |-> mutation_map[ks[i]].type,
                            value |-> mutation_map[ks[i]].value]]

NoScanner == [region_end |-> NoKey, rest |-> <<>>, has_more |-> FALSE]

\* "ScanState scan_state = {.next_key = start_key}" with its local_mutations.
\* The last four fields are the history of the cursor: the batches the
\* scanners have yielded, the pairs the calls have returned and the limit of
\* the calls, all three kept for as long as every call has had the same
\* limit and none has failed, and whether that is no longer so.
NewScanState(start, end) ==
  [start_key |-> start, end_key |-> end, next_key |-> start,
   local_mutations |-> Range(start, end), pending_kvs |-> <<>>, pending_offset |-> 0,
   scanner |-> NoScanner,
   batches |-> <<>>, emitted |-> <<>>, limits |-> {}, irregular |-> FALSE]

HasScanState(start, end) ==
  \E c \in scan_states : c.start_key = start /\ c.end_key = end

GetScanState(start, end) ==
  CHOOSE c \in scan_states : c.start_key = start /\ c.end_key = end

\* scan_states_ with the cursor of c's range replaced by c.
WithScanState(c) ==
  {d \in scan_states : d.start_key # c.start_key \/ d.end_key # c.end_key} \cup {c}

Processed(offset, out, fatal) == [pending_offset |-> offset, out |-> out, fatal |-> fatal]

\* The do-while of ProcessScanState for a server key above the mutation at
\* mutations_offset.  mutation stays the element it was bound to before the
\* loop; key is kv.key, which is moved from at each push.  A moved-from key
\* is empty, or still holds its value when keeps is TRUE.  Yields the output,
\* the offset and whether the limit has been hit.
RECURSIVE SkipMutations(_, _, _, _, _, _, _)
SkipMutations(local_mutations, mutation, key, mo, out, limit, keeps) ==
  LET pushed == mutation.type = kPutIfAbsent
      o == IF pushed THEN Append(out, [key |-> key, value |-> mutation.value]) ELSE out
      k == IF pushed /\ ~keeps THEN NoKey ELSE key
  IN  IF Len(o) = limit THEN [out |-> o, mo |-> mo + 1, hit |-> TRUE]
      ELSE IF mo + 1 < Len(local_mutations) /\ k > local_mutations[mo + 2].key
        THEN SkipMutations(local_mutations, mutation, k, mo + 1, o, limit, keeps)
      ELSE [out |-> o, mo |-> mo + 1, hit |-> FALSE]

\* ProcessScanState from pending_offset po and mutations_offset mo.
RECURSIVE ProcessFrom(_, _, _, _, _, _)
ProcessFrom(c, limit, out, po, mo, keeps) ==
  IF po >= Len(c.pending_kvs) THEN Processed(po, out, FALSE)
  ELSE
    LET kv == c.pending_kvs[po + 1]
        lm == c.local_mutations
    IN  IF mo >= Len(lm)
          THEN IF Len(out) + 1 = limit THEN Processed(po + 1, Append(out, kv), FALSE)
               ELSE ProcessFrom(c, limit, Append(out, kv), po + 1, mo, keeps)
        ELSE IF kv.key = lm[mo + 1].key
          THEN IF lm[mo + 1].type = kDelete
                 THEN ProcessFrom(c, limit, out, po + 1, mo, keeps)
               ELSE IF lm[mo + 1].type = kPut
                 THEN LET o == Append(out, [key |-> kv.key, value |-> lm[mo + 1].value])
                      IN  IF Len(o) = limit THEN Processed(po + 1, o, FALSE)
                          ELSE ProcessFrom(c, limit, o, po + 1, mo + 1, keeps)
               ELSE Processed(po + 1, out, TRUE)        \* CHECK(false)
        ELSE IF kv.key < lm[mo + 1].key
          THEN IF Len(out) + 1 = limit THEN Processed(po + 1, Append(out, kv), FALSE)
               ELSE ProcessFrom(c, limit, Append(out, kv), po + 1, mo, keeps)
        ELSE LET s == SkipMutations(lm, lm[mo + 1], kv.key, mo, out, limit, keeps)
             IN  IF s.hit \/ Len(s.out) = limit THEN Processed(po + 1, s.out, FALSE)
                 ELSE ProcessFrom(c, limit, s.out, po + 1, s.mo, keeps)

ProcessScanState(c, limit, out, keeps) == ProcessFrom(c, limit, out, c.pending_offset, 0, keeps)

\* The cursor after ProcessScanState returned p: "scan_state.next_key =
\* out_kvs.back().key" when there is output.
AfterProcess(c, p) ==
  [c EXCEPT !.pending_offset = p.pending_offset,
            !.next_key = IF p.out # <<>> THEN p.out[Len(p.out)].key ELSE @]

\* The history of cursor c after a merge that pushed the pairs of p.out
\* behind the first n.
Emitted(c, p, n) ==
  IF c.irregular THEN c ELSE [c EXCEPT !.emitted = @ \o SubSeq(p.out, n + 1, Len(p.out))]

\* Cursor c with its history given up.
Irregular(c) ==
  [c EXCEPT !.batches = <<>>, !.emitted = <<>>, !.limits = {}, !.irregular = TRUE]

\* Cursor c when a call with the given limit takes it up.
Called(c, limit) ==
  IF c.irregular THEN c
  ELSE IF c.limits \subseteq {limit} THEN [c EXCEPT !.limits = {limit}]
  ELSE Irregular(c)

\* The cursors after the call on the running cursor failed.
Failed == WithScanState(Irregular(GetScanState(args.start_key, args.end_key)))

\* A Scan() that is over: its status, its cursors, nothing sent by TxnImpl.
ScanReturns(status, cursors) ==
  /\ ret' = status
  /\ scan_states' = cursors
  /\ pc' = "idle"

\* The bound checks without "start_key >= end_key".
InvalidBoundsEmptyOnly(start, end) == start = NoKey \/ end = NoKey

\* "start_key.empty() || end_key.empty()" and "start_key >= end_key".
InvalidBounds(start, end) == start = NoKey \/ end = NoKey \/ start >= end

\* Scan() up to its loop: the checks of the bounds, the first lookup of a
\* region, the cursor of the range and what is pending in it.
Scan ==
  /\ pc = "idle"
  /\ call' = "Scan"
  /\ wc_trail' = "none"
  /\ NoRpcs
  /\ UNCHANGED <<txn_vars, buffer_vars, tso, wc_seen, prewritten, last_write>>
  /\ \E start \in ScanBounds, end \in ScanBounds, limit \in ScanLimits :
       /\ args' = [NoArgs EXCEPT !.start_key = start, !.end_key = end, !.limit = limit]
       /\ \/ /\ InvalidBounds(start, end)
             /\ out_kvs' = <<>>
             /\ ScanReturns(InvalidArgument, scan_states)
          \/ /\ ~InvalidBounds(start, end)
             /\ out_kvs' = <<>>                 \* LookupRegionBetweenRange fails
             /\ \E status \in {NotFound, NetworkError} : ScanReturns(status, scan_states)
          \/ /\ ~InvalidBounds(start, end)
             /\ HasScanState(start, end) \/ Cardinality(scan_states) < MaxCursors
             /\ \E keeps \in BOOLEAN :
                  LET c0 == IF HasScanState(start, end) THEN GetScanState(start, end)
                            ELSE NewScanState(start, end)
                      c == Called(c0, limit)
                      p == ProcessScanState(c, limit, <<>>, keeps)
                  IN  IF c.pending_offset >= Len(c.pending_kvs)
                        THEN /\ out_kvs' = <<>>
                             /\ scan_states' = WithScanState(c)
                             /\ pc' = "scan"
                             /\ ret' = Pending
                      ELSE IF p.fatal
                        THEN /\ out_kvs' = p.out
                             /\ scan_states' = WithScanState(Emitted(AfterProcess(c, p), p, 0))
                             /\ Fatal
                      ELSE IF Len(p.out) = limit
                        THEN /\ out_kvs' = p.out
                             /\ ScanReturns(OK, WithScanState(Emitted(AfterProcess(c, p), p, 0)))
                      ELSE /\ out_kvs' = p.out
                           /\ scan_states' = WithScanState(Emitted(AfterProcess(c, p), p, 0))
                           /\ pc' = "scan"
                           /\ ret' = Pending

\* The cursor of the running Scan().
ScanCursor == GetScanState(args.start_key, args.end_key)

ScanUnchanged ==
  UNCHANGED <<txn_vars, buffer_vars, tso, call, rpc_vars, wc_seen, prewritten, wc_trail, args, last_write>>

\* "while (scan_state.next_key < end_key)" is over: the cursor is erased.
ScanDone ==
  /\ pc = "scan"
  /\ ScanCursor.next_key >= args.end_key
  /\ ScanReturns(OK, scan_states \ {ScanCursor})
  /\ UNCHANGED out_kvs
  /\ ScanUnchanged

\* The streams a region scanner can yield over [start, end).
ScanStreams(start, end) ==
  {[i \in DOMAIN SeqOfSet(S) |-> [key |-> SeqOfSet(S)[i], value |-> ServerValue]] :
     S \in SUBSET {k \in Keys : start <= k /\ k < end}}

\* MetaCache::LookupRegionBetweenRange when it finds a region: one that
\* holds start, with any start key up to it and any end key behind it (the
\* last region ends behind every key).
LookupRegionBetweenRange(start, end) ==
  {[start_key |-> s, end_key |-> e] : s \in {NoKey, start}, e \in (start + 1)..(NumKeys + 1)}

\* "if (scanner == nullptr)": look up the next region and open a scanner on
\* the part of it inside the range.
ScanOpen ==
  /\ pc = "scan"
  /\ ScanCursor.next_key < args.end_key
  /\ ScanCursor.scanner = NoScanner
  /\ UNCHANGED out_kvs
  /\ ScanUnchanged
  /\ \/ /\ scan_states' = WithScanState([ScanCursor EXCEPT !.next_key = args.end_key])
        /\ UNCHANGED <<ret, pc>>                               \* status.IsNotFound()
     \/ ScanReturns(NetworkError, Failed)
     \/ /\ \E region \in LookupRegionBetweenRange(ScanCursor.next_key, args.end_key) :
             LET amend_start_key == IF ScanCursor.next_key <= region.start_key
                                      THEN region.start_key
                                    ELSE ScanCursor.next_key
                 amend_end_key == IF args.end_key <= region.end_key THEN args.end_key
                                  ELSE region.end_key
             IN  \E stream \in ScanStreams(amend_start_key, amend_end_key) :
                   scan_states' = WithScanState(
                     [ScanCursor EXCEPT !.scanner = [region_end |-> region.end_key,
                                                     rest |-> stream, has_more |-> TRUE]])
        /\ UNCHANGED <<ret, pc>>

\* One pass of "while (scanner->HasMore())": the next batch, merged with the
\* local mutations.
ScanNextBatch ==
  /\ pc = "scan"
  /\ ScanCursor.next_key < args.end_key
  /\ ScanCursor.scanner # NoScanner
  /\ ScanCursor.scanner.has_more
  /\ ScanUnchanged
  /\ \/ /\ ScanReturns(NetworkError, Failed)                    \* NextBatch fails
        /\ UNCHANGED out_kvs
     \/ /\ ScanCursor.scanner.rest = <<>>                       \* scan_kvs.empty()
        /\ scan_states' = WithScanState([ScanCursor EXCEPT !.scanner.has_more = FALSE])
        /\ UNCHANGED <<out_kvs, ret, pc>>
     \/ \E n \in 1..ScanBatchSize, keeps \in BOOLEAN :
          /\ n <= Len(ScanCursor.scanner.rest)
          /\ LET c == [ScanCursor EXCEPT
                         !.pending_kvs = SubSeq(ScanCursor.scanner.rest, 1, n),
                         !.batches = IF ScanCursor.irregular THEN @
                                     ELSE Append(@, SubSeq(ScanCursor.scanner.rest, 1, n)),
                         !.pending_offset = 0,
                         !.scanner.rest = SubSeq(@, n + 1, Len(@)),
                         !.scanner.has_more = (n < Len(ScanCursor.scanner.rest))]
                 p == ProcessScanState(c, args.limit, out_kvs, keeps)
             IN  /\ out_kvs' = p.out
                 /\ scan_states' = WithScanState(Emitted(AfterProcess(c, p), p, Len(out_kvs)))
                 /\ IF p.fatal THEN Fatal
                    ELSE IF Len(p.out) = args.limit THEN ret' = OK /\ pc' = "idle"
                    ELSE UNCHANGED <<ret, pc>>

\* A close that moves next_key to the end of the range, not of the region.
ScanCloseAtRangeEnd ==
  /\ pc = "scan"
  /\ ScanCursor.next_key < args.end_key
  /\ ScanCursor.scanner # NoScanner
  /\ ~ScanCursor.scanner.has_more
  /\ scan_states' = WithScanState([ScanCursor EXCEPT !.next_key = args.end_key,
                                                     !.scanner = NoScanner])
  /\ UNCHANGED <<out_kvs, ret, pc>>
  /\ ScanUnchanged

\* The scanner has no more: "scan_state.next_key = region->Range().end_key()".
ScanClose ==
  /\ pc = "scan"
  /\ ScanCursor.next_key < args.end_key
  /\ ScanCursor.scanner # NoScanner
  /\ ~ScanCursor.scanner.has_more
  /\ scan_states' = WithScanState([ScanCursor EXCEPT !.next_key = ScanCursor.scanner.region_end,
                                                     !.scanner = NoScanner])
  /\ UNCHANGED <<out_kvs, ret, pc>>
  /\ ScanUnchanged

\* The commit protocol reads the buffered keys only, never the type of a
\* mutation, so Put stands for the three kinds of write here.
Next ==
  \/ Begin
  \/ Put
  \/ PreCommit
  \/ \E i \in DOMAIN sub_tasks : ProcessTxnPrewriteSubTask(i)
  \/ PreCommitJoin
  \/ Commit
  \/ \E i \in DOMAIN sub_tasks : ProcessTxnCommitSubTask(i)
  \/ CommitJoin
  \/ Rollback
  \/ \E i \in DOMAIN sub_tasks : ProcessBatchRollbackSubTask(i)
  \/ RollbackJoin

Spec == Init /\ [][Next]_vars

\* The reads and the buffered writes of a transaction.
NextRead ==
  \/ Begin
  \/ Put
  \/ PutIfAbsent
  \/ Delete
  \/ Get
  \/ BatchGet
  \/ \E i \in DOMAIN sub_tasks : ProcessTxnBatchGetSubTask(i)
  \/ BatchGetJoin

SpecRead == Init /\ [][NextRead]_vars

\* The calls that retry an RPC: the reads and PreCommit(), over buffered Puts.
NextRetry ==
  \/ Put
  \/ Get
  \/ BatchGet
  \/ \E i \in DOMAIN sub_tasks : ProcessTxnBatchGetSubTask(i)
  \/ BatchGetJoin
  \/ PreCommit
  \/ \E i \in DOMAIN sub_tasks : ProcessTxnPrewriteSubTask(i)
  \/ PreCommitJoin

SpecRetry == Init /\ [][NextRetry]_vars

\* Range scans of a transaction over what its writes have left in the
\* buffer: any mutation or none for each key, the primary key being the
\* first of them.
InitScan ==
  /\ state = kActive
  /\ start_ts = 1
  /\ commit_ts = 0
  /\ is_one_pc = FALSE
  /\ mutation_map \in [Keys -> {NoMutation, [type |-> kDelete, value |-> NoValue]} \cup
                         [type : {kPut, kPutIfAbsent}, value : Values]]
  /\ primary_key = IF IsEmpty THEN NoKey ELSE CHOOSE k \in BufferedKeys : \A j \in BufferedKeys : k <= j
  /\ tso = 1
  /\ pc = "idle"
  /\ call = "none"
  /\ ret = OK
  /\ primary_rpc = NoRpc
  /\ primary_sends = 0
  /\ primary_resp = NoResp
  /\ sub_tasks = <<>>
  /\ wc_seen = FALSE
  /\ prewritten = {}
  /\ wc_trail = "none"
  /\ args = NoArgs
  /\ out_kvs = <<>>
  /\ scan_states = {}
  /\ last_write = mutation_map

NextScan ==
  \/ Scan
  \/ ScanOpen
  \/ ScanNextBatch
  \/ ScanClose
  \/ ScanDone

SpecScan == InitScan /\ [][NextScan]_vars

\* ------------------------------------------------ scans over any region
\* The regions of any geometry: a region that LookupRegionBetweenRange
\* answers for [start, end) with an end key that is empty or not behind
\* start, beside the regions that hold start.
MaxScanned == 2

LookupRegionOfAnyGeometry(start, end) ==
  {[start_key |-> s, end_key |-> e] : s \in {NoKey, start}, e \in NoKey..(NumKeys + 1)}

\* "if (scanner == nullptr)" when the region found is of any geometry, for
\* as long as the scan has collected fewer than MaxScanned batches and pairs.
ScanOpenAnyRegion ==
  /\ pc = "scan"
  /\ ScanCursor.next_key < args.end_key
  /\ ScanCursor.scanner = NoScanner
  /\ Len(ScanCursor.batches) < MaxScanned
  /\ Len(out_kvs) < MaxScanned
  /\ UNCHANGED <<out_kvs, ret, pc>>
  /\ ScanUnchanged
  /\ \E region \in LookupRegionOfAnyGeometry(ScanCursor.next_key, args.end_key) :
       LET amend_start_key == IF ScanCursor.next_key <= region.start_key
                                THEN region.start_key
                              ELSE ScanCursor.next_key
           amend_end_key == IF args.end_key <= region.end_key THEN args.end_key
                            ELSE region.end_key
       IN  \E stream \in ScanStreams(amend_start_key, amend_end_key) :
             scan_states' = WithScanState(
               [ScanCursor EXCEPT !.scanner = [region_end |-> region.end_key,
                                               rest |-> stream, has_more |-> TRUE]])

NextAnyRegion ==
  \/ Scan
  \/ ScanOpen
  \/ ScanOpenAnyRegion
  \/ ScanNextBatch
  \/ ScanClose
  \/ ScanDone

SpecAnyRegion == InitScan /\ [][NextAnyRegion]_vars

\* ------------------------------------------------ scan cursors by state_key
\* Scan() keeps its cursors in scan_states_ under "start_key + end_key", the
\* concatenation of the two bounds. Here the keys are the byte strings they
\* are in the code, over two byte values and up to MaxKeyLen bytes, and a
\* cursor is its state_key, its next_key and the range of the call that
\* created it; a Scan() call is one step.
MaxKeyLen == 2

ByteStrings == UNION {[1..n -> 1..2] : n \in 0..MaxKeyLen}

\* std::string operator<: the first differing byte decides, a proper prefix
\* is smaller.
ByteLess(a, b) ==
  \/ \E i \in 1..Len(a) :
       /\ i <= Len(b)
       /\ a[i] < b[i]
       /\ \A j \in 1..(i - 1) : a[j] = b[j]
  \/ /\ Len(a) < Len(b)
     /\ \A j \in 1..Len(a) : a[j] = b[j]

\* "std::string state_key = start_key + end_key".
StateKey(start, end) == start \o end

\* "start_key.empty() || end_key.empty()" and "start_key >= end_key".
InvalidByteBounds(start, end) == start = <<>> \/ end = <<>> \/ ~ByteLess(start, end)

\* "scan_states_.find(state_key)" and, when it finds nothing, the cursor
\* emplaced with ".next_key = start_key".
FindScanState(start, end) ==
  IF \E c \in scan_states : c.state_key = StateKey(start, end)
    THEN CHOOSE c \in scan_states : c.state_key = StateKey(start, end)
    ELSE [state_key |-> StateKey(start, end), next_key |-> start, range |-> <<start, end>>]

ScanByteCall(start, end) ==
  /\ pc = "idle"
  /\ pc' = "idle"
  /\ call' = "Scan"
  /\ args' = [NoArgs EXCEPT !.start_key = start, !.end_key = end, !.limit = 1]
  /\ NoRpcs
  /\ UNCHANGED <<txn_vars, buffer_vars, tso, wc_seen, prewritten, wc_trail, last_write>>

\* The bound checks reject the call before the cursor is looked up.
ScanByteInvalid ==
  \E start \in ByteStrings, end \in ByteStrings :
    /\ InvalidByteBounds(start, end)
    /\ ScanByteCall(start, end)
    /\ ret' = InvalidArgument
    /\ out_kvs' = <<>>
    /\ UNCHANGED scan_states

\* The call returns at the limit: next_key is the last key it returned, a
\* key of [next_key, end_key), and the cursor stays in scan_states_.
ScanByteAtLimit ==
  \E start \in ByteStrings, end \in ByteStrings, k \in ByteStrings :
    LET c == FindScanState(start, end)
    IN  /\ ~InvalidByteBounds(start, end)
        /\ c \in scan_states \/ Cardinality(scan_states) < MaxCursors
        /\ ~ByteLess(k, c.next_key)
        /\ ByteLess(k, end)
        /\ ScanByteCall(start, end)
        /\ ret' = OK
        /\ out_kvs' = <<[key |-> k, value |-> ServerValue]>>
        /\ scan_states' = (scan_states \ {c}) \cup {[c EXCEPT !.next_key = k]}

\* A scanner fails inside the shard loop: the cursor stays as it was found
\* or created.
ScanByteFails ==
  \E start \in ByteStrings, end \in ByteStrings :
    LET c == FindScanState(start, end)
    IN  /\ ~InvalidByteBounds(start, end)
        /\ c \in scan_states \/ Cardinality(scan_states) < MaxCursors
        /\ ScanByteCall(start, end)
        /\ ret' = NetworkError
        /\ out_kvs' = <<>>
        /\ scan_states' = scan_states \cup {c}

\* The shard loop runs out: "scan_states_.erase(state_key)".
ScanByteDrains ==
  \E start \in ByteStrings, end \in ByteStrings :
    LET c == FindScanState(start, end)
    IN  /\ ~InvalidByteBounds(start, end)
        /\ c \in scan_states \/ Cardinality(scan_states) < MaxCursors
        /\ ScanByteCall(start, end)
        /\ ret' = OK
        /\ out_kvs' = <<>>
        /\ scan_states' = scan_states \ {c}

NextStateKey ==
  \/ ScanByteInvalid
  \/ ScanByteAtLimit
  \/ ScanByteFails
  \/ ScanByteDrains

SpecStateKey == Init /\ [][NextStateKey]_vars

\* ========================================================= properties
\* C1: Commit() called in state Init, Active, PreCommitting, Committing,
\* RollingBack or RolledBack returns IllegalState at once: it sends no RPC,
\* asks the oracle for no timestamp and leaves the state as it was.
C1_CommitRejected ==
  [][(Commit /\ state \in {kInit, kActive, kPreCommitting, kCommitting,
                           kRollbacking, kRollbackted})
       => /\ ret' = IllegalState
          /\ pc' = "idle"
          /\ primary_rpc' = NoRpc
          /\ primary_sends' = 0
          /\ sub_tasks' = <<>>
          /\ tso' = tso
          /\ UNCHANGED <<state, commit_ts, start_ts, is_one_pc, buffer_vars>>]_vars

\* Commit() has just been rejected on a transaction left in Committing by a
\* commit whose primary TxnCommit failed.
C1_Witness ==
  /\ call = "Commit"
  /\ pc = "idle"
  /\ ret = IllegalState
  /\ state = kCommitting
  /\ commit_ts > 0

\* C2: Commit() on a Committed transaction returns OK with no side effect,
\* however often it is called: no RPC, no timestamp, nothing changes.
C2_CommitIdempotent ==
  [][(Commit /\ state = kCommitted)
       => /\ ret' = OK
          /\ pc' = "idle"
          /\ primary_rpc' = NoRpc
          /\ primary_sends' = 0
          /\ sub_tasks' = <<>>
          /\ tso' = tso
          /\ UNCHANGED <<state, commit_ts, start_ts, is_one_pc, buffer_vars>>]_vars

\* Commit() has returned OK without an RPC on a transaction with buffered
\* mutations whose commit had already taken a commit timestamp.
C2_Witness ==
  /\ call = "Commit"
  /\ pc = "idle"
  /\ ret = OK
  /\ state = kCommitted
  /\ ~IsEmpty
  /\ commit_ts > 0
  /\ primary_sends = 0

\* C3: Rollback() is accepted exactly in PreCommitting, PreCommitted and
\* RollingBack; in Init, Active, Committed and RolledBack it returns
\* IllegalState, sends no RPC and leaves the state as it was.
C3_RollbackGuard ==
  [][Rollback
       => /\ state \in {kPreCommitting, kPreCommitted, kRollbacking}
               => /\ ret' # IllegalState
                  /\ state' \in {kRollbacking, kRollbackted}
          /\ state \in {kInit, kActive, kCommitted, kRollbackted}
               => /\ ret' = IllegalState
                  /\ pc' = "idle"
                  /\ primary_rpc' = NoRpc
                  /\ primary_sends' = 0
                  /\ sub_tasks' = <<>>
                  /\ UNCHANGED <<state, tso, commit_ts, start_ts, is_one_pc, buffer_vars>>]_vars

\* Rollback() has just been rejected on a Committed transaction.
C3_Witness ==
  /\ call = "Rollback"
  /\ pc = "idle"
  /\ ret = IllegalState
  /\ state = kCommitted

\* C4, as claimed: Rollback() on an Active transaction moves it to
\* RollingBack and then RolledBack.
C4_RollbackFromActive ==
  [][(Rollback /\ state = kActive) => state' \in {kRollbacking, kRollbackted}]_vars

\* C4, as the code has it: Rollback() on an Active transaction returns
\* IllegalState and leaves it Active; on a PreCommitting or PreCommitted one
\* it moves the state to RolledBack when the primary key's TxnBatchRollback
\* was sent and not answered locked, and to RollingBack otherwise.
C4_RollbackFromPreCommit ==
  [][Rollback
       => /\ state = kActive => (ret' = IllegalState /\ state' = kActive)
          /\ state \in {kPreCommitting, kPreCommitted}
               => IF /\ primary_rpc'.method = "TxnBatchRollback"
                     /\ primary_resp'.sent
                     /\ primary_resp'.txn_result # <<"locked">>
                    THEN state' = kRollbackted
                    ELSE state' = kRollbacking /\ ret' \notin {OK, Pending}]_vars

\* Rollback() has just been rejected on an Active transaction holding writes.
C4_Witness ==
  /\ call = "Rollback"
  /\ pc = "idle"
  /\ ret = IllegalState
  /\ state = kActive
  /\ ~IsEmpty

\* C5: once PreCommit() has returned TxnWriteConflict, the transaction never
\* reaches Committed and never sends a TxnCommit, and Rollback() is the only
\* call accepted afterwards.
C5_NoCommitAfterWriteConflict ==
  wc_seen =>
    /\ state # kCommitted
    /\ primary_rpc.method # "TxnCommit"
    /\ \A i \in DOMAIN sub_tasks : sub_tasks[i].rpc.method # "TxnCommit"
    /\ (pc = "idle" /\ call \notin {"Rollback", "PreCommit"}) => ret = IllegalState
    /\ (pc = "idle" /\ call = "PreCommit") => ret = TxnWriteConflict

\* C6: after a PreCommit() that failed because the primary prewrite was
\* answered write_conflict, a Commit() called next returns IllegalState, and
\* a Rollback() called next (or after that Commit) whose primary
\* TxnBatchRollback succeeds returns OK and leaves the state RolledBack.
C6_RollbackAfterWriteConflict ==
  /\ wc_trail = "wc_commit"
       => /\ pc = "idle"
          /\ ret = IllegalState
          /\ primary_sends = 0
          /\ state = kPreCommitting
  /\ ( /\ wc_trail \in {"wc_rollback", "wc_commit_rollback"}
       /\ primary_rpc.method = "TxnBatchRollback"
       /\ primary_resp = Response(<<>>) )
       => /\ state = kRollbackted
          /\ pc \in {"idle", "rollback_exec"}
          /\ pc = "idle" => ret = OK

\* PreCommit() failed by a primary write conflict, Commit() was rejected, and
\* the Rollback() that followed has returned OK after rolling back the primary
\* key and a secondary key in another region.
C6_Witness ==
  /\ wc_trail = "wc_commit_rollback"
  /\ pc = "idle"
  /\ ret = OK
  /\ state = kRollbackted
  /\ primary_resp = Response(<<>>)
  /\ ~is_one_pc

C8_CommitTsAfterStartTs ==
  /\ commit_ts # 0 => commit_ts > start_ts
  /\ primary_rpc.method = "TxnCommit" => primary_rpc.commit_ts > primary_rpc.start_ts
  /\ \A i \in DOMAIN sub_tasks :
       sub_tasks[i].rpc.method = "TxnCommit"
         => sub_tasks[i].rpc.commit_ts > sub_tasks[i].rpc.start_ts

\* C9: when the primary TxnCommit is answered write_conflict, Commit()
\* returns TxnRolledBack, the state is RolledBack and no TxnCommit is sent for
\* a secondary key.
C9_PrimaryCommitWriteConflict ==
  ( /\ call = "Commit"
    /\ primary_rpc.method = "TxnCommit"
    /\ primary_resp = Response(<<"write_conflict">>) )
    => /\ pc = "idle"
       /\ ret = TxnRolledBack
       /\ state = kRollbackted
       /\ primary_sends = 1
       /\ sub_tasks = <<>>

\* Commit() of a transaction with a secondary key has returned TxnRolledBack
\* on a write_conflict answer to the primary TxnCommit.
C9_Witness ==
  /\ call = "Commit"
  /\ pc = "idle"
  /\ ret = TxnRolledBack
  /\ primary_rpc.method = "TxnCommit"
  /\ primary_resp = Response(<<"write_conflict">>)
  /\ SecondaryKeys # <<>>
  /\ ~is_one_pc

\* C10: once the primary TxnCommit has succeeded, Commit() returns OK with
\* the state Committed whatever happens to the secondary commits (transport
\* error, failed region lookup, locked, txn_not_found or write_conflict
\* answer): no error is returned and the process is not aborted.
C10_SecondaryCommitBestEffort ==
  ( /\ call = "Commit"
    /\ primary_rpc.method = "TxnCommit"
    /\ primary_resp = Response(<<>>) )
    => /\ state = kCommitted
       /\ pc \in {"idle", "commit_exec"}
       /\ pc = "idle" => ret = OK

\* C11, as claimed: Rollback() returns OK with the state RolledBack only if
\* the primary key's TxnBatchRollback succeeded; a failed region lookup, a
\* failed send or an error txn_result in the primary response is returned
\* with the state left RollingBack; the secondary rollbacks change neither
\* the returned status nor the RolledBack state.
C11_PrimaryRollbackErrorsSurfaced ==
  /\ (call = "Rollback" /\ pc = "idle" /\ ret = OK)
       => /\ state = kRollbackted
          /\ primary_rpc.method = "TxnBatchRollback"
          /\ primary_resp = Response(<<>>)
  /\ (call = "Rollback" /\ primary_rpc.method = "TxnBatchRollback"
        /\ primary_resp # Response(<<>>))
       => /\ state = kRollbacking
          /\ pc = "idle"
          /\ ret \notin {OK, Pending}

\* C11, as the code has it: Rollback() returns the error and leaves the state
\* RollingBack when the primary key's region lookup fails (NotFound), the
\* primary TxnBatchRollback cannot be sent, or its response carries a locked
\* txn_result (TxnLockConflict); a response with any other txn_result counts
\* as success.  After a success the state is RolledBack and Rollback()
\* returns OK whatever the secondary rollbacks do.
C11_PrimaryRollbackLockedSurfaced ==
  /\ [][(Rollback /\ RollbackAllowed(state))
          => IF primary_rpc'.method # "TxnBatchRollback"
               THEN state' = kRollbacking /\ pc' = "idle" /\ ret' = NotFound
             ELSE IF ~primary_resp'.sent
               THEN state' = kRollbacking /\ pc' = "idle" /\ ret' = NetworkError
                    /\ sub_tasks' = <<>>
             ELSE IF primary_resp'.txn_result = <<"locked">>
               THEN state' = kRollbacking /\ pc' = "idle" /\ ret' = TxnLockConflict
                    /\ sub_tasks' = <<>>
             ELSE /\ state' = kRollbackted
                  /\ \/ pc' = "idle" /\ ret' = OK
                     \/ pc' = "rollback_exec" /\ ret' = Pending]_vars
  /\ [][(\E i \in DOMAIN sub_tasks : ProcessBatchRollbackSubTask(i))
          => UNCHANGED <<state, ret, pc>>]_vars
  /\ [][RollbackJoin => (ret' = OK /\ state' = kRollbackted /\ state = kRollbackted)]_vars

\* The primary rollback succeeded and a secondary rollback sub-task has
\* failed: the state is RolledBack while Rollback() is about to return.
C11_Witness ==
  /\ call = "Rollback"
  /\ pc = "rollback_exec"
  /\ state = kRollbackted
  /\ \A i \in DOMAIN sub_tasks : sub_tasks[i].done
  /\ \E i \in DOMAIN sub_tasks : sub_tasks[i].status # OK

\* C12: read-your-writes.  A Get(k) issued after the latest write to k
\* returns the buffered value when that write was Put or PutIfAbsent and
\* NotFound when it was Delete, without any RPC; a TxnGet is sent only for a
\* key that has no buffer entry.
C12_ReadYourWrites ==
  (call = "Get" /\ pc = "idle") =>
    LET k == args.keys[1]
        w == last_write[k]
    IN  /\ w.type \in {kPut, kPutIfAbsent}
             => /\ ret = OK
                /\ out_kvs = <<[key |-> k, value |-> mutation_map[k].value]>>
                /\ out_kvs[1].value \in Values
                /\ primary_rpc = NoRpc
                /\ primary_sends = 0
        /\ w.type = kPut => (ret = OK /\ out_kvs = <<[key |-> k, value |-> w.value]>>)
        /\ w.type = kDelete
             => /\ ret = NotFound
                /\ out_kvs = <<>>
                /\ primary_rpc = NoRpc
                /\ primary_sends = 0
        /\ primary_sends > 0
             => /\ w.type = kNone
                /\ mutation_map[k].type = kNone
                /\ primary_rpc.method = "TxnGet"
                /\ primary_rpc.keys = <<k>>

\* Get(k) has returned the buffered value of a key whose latest write was a
\* PutIfAbsent that replaced a buffered Delete.
C12_Witness ==
  /\ call = "Get"
  /\ pc = "idle"
  /\ ret = OK
  /\ primary_sends = 0
  /\ last_write[args.keys[1]].type = kPutIfAbsent
  /\ mutation_map[args.keys[1]].type = kPut
  /\ out_kvs = <<[key |-> args.keys[1], value |-> mutation_map[args.keys[1]].value]>>

\* --------------------------------------------------------------- C13
\* A Scan() that returned OK.
ScanReturnedOK == call = "Scan" /\ pc = "idle" /\ ret = OK

\* C13: every Scan(a, b, L) that returns OK, a resumed one too, returns at
\* most L pairs, L = 0 included, with strictly increasing keys that all lie
\* in [a, b).
C13_ScanWithinLimitOrderedInRange ==
  ScanReturnedOK =>
    /\ Len(out_kvs) <= args.limit
    /\ \A i \in 1..Len(out_kvs) :
         /\ args.start_key <= out_kvs[i].key
         /\ out_kvs[i].key < args.end_key
         /\ i > 1 => out_kvs[i - 1].key < out_kvs[i].key

\* --------------------------------------------------------------- C14
\* The scanner is about to yield a server entry whose key is above the key
\* of the first buffered Put or PutIfAbsent of the range, nothing has been
\* returned yet and the limit leaves room for both.
BufferedKeyBelowServerKey ==
  /\ pc = "scan"
  /\ ScanCursor.scanner # NoScanner
  /\ ScanCursor.scanner.rest # <<>>
  /\ ScanCursor.local_mutations # <<>>
  /\ ScanCursor.local_mutations[1].key < ScanCursor.scanner.rest[1].key
  /\ ScanCursor.local_mutations[1].type \in {kPut, kPutIfAbsent}
  /\ out_kvs = <<>>
  /\ args.limit = MaxLimit

\* What the merge owes for the server entry s after the buffered mutations
\* below it: nothing if the buffer deletes s.key, the buffered value if it
\* writes s.key, s itself otherwise.
MergedServerEntry(local_mutations, s) ==
  LET at == {m \in DOMAIN local_mutations : local_mutations[m].key = s.key}
  IN  IF at = {} THEN {s}
      ELSE IF \E m \in at : local_mutations[m].type = kDelete THEN {}
      ELSE {[key |-> s.key, value |-> local_mutations[m].value] : m \in at}

\* C14: when the next buffered mutation b is a Put or PutIfAbsent with
\* b.key < s.key for the next server entry s, the merge emits b under its own
\* key with its buffered value, and s is then still compared and emitted.
C14_BufferedKeyBelowServerKeyEmitted ==
  [][(BufferedKeyBelowServerKey /\ ScanNextBatch /\ ret' # NetworkError) =>
       \E i \in 1..Len(out_kvs') :
         /\ out_kvs'[i] = [key |-> ScanCursor.local_mutations[1].key,
                           value |-> ScanCursor.local_mutations[1].value]
         /\ \A kv \in MergedServerEntry(ScanCursor.local_mutations, ScanCursor.scanner.rest[1]) :
              \E j \in (i + 1)..Len(out_kvs') : out_kvs'[j] = kv]_vars

\* --------------------------------------------------------------- C15
\* The bounds Scan() rejects: an empty start key, an empty end key, or
\* start >= end.
InvalidScanBounds ==
  args.start_key = NoKey \/ args.end_key = NoKey \/ args.start_key >= args.end_key

\* A Scan() call with rejected bounds.
ScanWithInvalidBounds == pc = "idle" /\ call' = "Scan" /\ InvalidScanBounds'

\* C15: a Scan() with rejected bounds returns InvalidArgument with no pair,
\* sends nothing, and leaves every scan cursor as it was: the call is over at
\* once and scan_states is not touched.
C15_InvalidBoundsRejected ==
  [][ScanWithInvalidBounds =>
       /\ ret' = InvalidArgument
       /\ pc' = "idle"
       /\ out_kvs' = <<>>
       /\ scan_states' = scan_states
       /\ primary_rpc' = NoRpc /\ primary_sends' = 0 /\ sub_tasks' = <<>>]_vars

\* A Scan() with rejected bounds came back while a cursor of another range
\* is open.
C15_Witness ==
  /\ call = "Scan" /\ pc = "idle" /\ ret = InvalidArgument
  /\ InvalidScanBounds
  /\ scan_states # {}

\* --------------------------------------------------------------- C16
\* PreCommit() came back after the primary prewrite ended on a lock conflict
\* that the resolver reported as resolved.
PrimaryPrewriteEndedOnResolvedLock ==
  /\ call = "PreCommit" /\ pc = "idle"
  /\ primary_resp = Response(<<"locked_resolved">>)

\* The sub-tasks that ended on a lock conflict: they used up their retries.
LockConflictSubTasks == {i \in DOMAIN sub_tasks : sub_tasks[i].status = TxnLockConflict}

\* C16: a prewrite that still gets a lock conflict when its retries are used
\* up, the lock being reported as resolved each time, makes PreCommit() return
\* TxnLockConflict, never OK, with the state left at PreCommitting: for the
\* primary prewrite, and for a secondary sub-task (the first failed sub-task
\* gives the status).
C16_LockConflictAfterRetries ==
  /\ [](PrimaryPrewriteEndedOnResolvedLock =>
          /\ ret = TxnLockConflict
          /\ primary_sends = FLAGS_txn_op_max_retry + 1
          /\ state = kPreCommitting)
  /\ [][(PreCommitJoin /\ LockConflictSubTasks # {}) =>
          /\ ret' # OK
          /\ ret' = FirstFailStatus(sub_tasks)
          /\ (\A i \in LockConflictSubTasks :
                /\ sub_tasks[i].sends = FLAGS_txn_op_max_retry + 1
                /\ (\A j \in 1..(i - 1) : sub_tasks[j].status = OK) => ret' = TxnLockConflict)
          /\ state' = kPreCommitting]_vars

\* PreCommit() returned TxnLockConflict after max_retry + 1 primary prewrites
\* that were all answered with a resolved lock.
C16_Witness ==
  /\ PrimaryPrewriteEndedOnResolvedLock
  /\ primary_sends = FLAGS_txn_op_max_retry + 1
  /\ ret = TxnLockConflict
  /\ state = kPreCommitting

\* --------------------------------------------------------------- C18
BatchGetReturned == call = "BatchGet" /\ pc = "idle"

\* Every requested key with a buffered Put or PutIfAbsent is returned with
\* its buffered value, and no requested key with a buffered Delete is
\* returned.
BufferedKeysResolved ==
  \A i \in DOMAIN args.keys :
    LET k == args.keys[i]
    IN  /\ mutation_map[k].type \in {kPut, kPutIfAbsent}
             => \E j \in DOMAIN out_kvs : out_kvs[j] = [key |-> k, value |-> mutation_map[k].value]
        /\ mutation_map[k].type = kDelete => \A j \in DOMAIN out_kvs : out_kvs[j].key # k

\* The TxnBatchGet requests hold requested keys without a buffer entry only,
\* one request per region.
OnlyUnbufferedKeysSent ==
  /\ \A t \in DOMAIN sub_tasks :
       /\ sub_tasks[t].rpc.method = "TxnBatchGet"
       /\ sub_tasks[t].rpc.keys # <<>>
       /\ \A i \in DOMAIN sub_tasks[t].rpc.keys :
            /\ mutation_map[sub_tasks[t].rpc.keys[i]].type = kNone
            /\ \E j \in DOMAIN args.keys : args.keys[j] = sub_tasks[t].rpc.keys[i]
  /\ \A t, u \in DOMAIN sub_tasks : sub_tasks[t].region = sub_tasks[u].region => t = u
  /\ \A j \in DOMAIN args.keys :
       (sub_tasks # <<>> /\ mutation_map[args.keys[j]].type = kNone) =>
         \E t \in DOMAIN sub_tasks :
           \E i \in DOMAIN sub_tasks[t].rpc.keys : sub_tasks[t].rpc.keys[i] = args.keys[j]

\* No pair with an empty value is returned, and a pair that is not buffered
\* comes from a sub-task that succeeded.
NoEmptyValueReturned ==
  \A j \in DOMAIN out_kvs :
    /\ out_kvs[j].value # NoValue
    /\ mutation_map[out_kvs[j].key].type = kNone =>
         \E t \in DOMAIN sub_tasks :
           /\ sub_tasks[t].status = OK
           /\ \E i \in DOMAIN sub_tasks[t].result_kvs : sub_tasks[t].result_kvs[i] = out_kvs[j]

\* C18 as claimed: BatchGet() resolves buffer-first, sends only the
\* unbuffered keys (one TxnBatchGet per region), leaves out server pairs with
\* an empty value, and returns the first non-OK sub-task status, or OK when
\* all sub-tasks succeed.
C18_StatusFromSubTasksOnly ==
  BatchGetReturned =>
    /\ BufferedKeysResolved
    /\ OnlyUnbufferedKeysSent
    /\ NoEmptyValueReturned
    /\ ret = FirstFailStatus(sub_tasks)

\* C18: BatchGet() resolves buffer-first, sends only the unbuffered keys (one
\* TxnBatchGet per region), leaves out server pairs with an empty value, and
\* returns the first non-OK sub-task status, or OK when all sub-tasks
\* succeed; when the region lookup of an unbuffered key fails it returns the
\* status of the lookup, having sent nothing, with the buffered pairs only.
C18_BatchGetBufferFirst ==
  BatchGetReturned =>
    /\ BufferedKeysResolved
    /\ OnlyUnbufferedKeysSent
    /\ NoEmptyValueReturned
    /\ \/ ret = FirstFailStatus(sub_tasks)
       \/ /\ sub_tasks = <<>>
          /\ NotFoundKeys(args.keys) # <<>>
          /\ ret = NotFound
          /\ out_kvs = ToReturn(args.keys)

\* BatchGet() of a buffered PutIfAbsent key and an unbuffered key returned
\* OK with the buffered pair and the pair of the store.
C18_Witness ==
  /\ BatchGetReturned
  /\ ret = OK
  /\ Len(args.keys) = 2
  /\ mutation_map[args.keys[1]].type = kPutIfAbsent
  /\ mutation_map[args.keys[2]].type = kNone
  /\ Len(sub_tasks) = 1 /\ sub_tasks[1].status = OK /\ sub_tasks[1].sends >= 1
  /\ out_kvs = <<[key |-> args.keys[1], value |-> mutation_map[args.keys[1]].value],
                 [key |-> args.keys[2], value |-> ServerValue]>>

\* --------------------------------------------------------------- C17
\* The sub-tasks whose record differs between the two states of a step.
ChangedSubTasks == {i \in DOMAIN sub_tasks : sub_tasks'[i] # sub_tasks[i]}

\* C17: a Get, the primary prewrite and every sub-task of BatchGet and of
\* the secondary prewrites send their RPC at most max_retry + 1 times, and a
\* step of one sub-task leaves the send count of every other sub-task alone.
C17_RetriesBoundedPerSubTask ==
  /\ [](/\ call \in {"Get", "PreCommit"} => primary_sends <= FLAGS_txn_op_max_retry + 1
        /\ \A i \in DOMAIN sub_tasks : sub_tasks[i].sends <= FLAGS_txn_op_max_retry + 1)
  /\ [][(pc \in {"batchget_exec", "precommit_exec"} /\ pc' = pc) =>
          /\ Cardinality(ChangedSubTasks) <= 1
          /\ \A i \in DOMAIN sub_tasks : sub_tasks[i].done => sub_tasks'[i] = sub_tasks[i]]_vars

\* Two BatchGet sub-tasks are done, one after max_retry + 1 sends and the
\* other after a single send.
C17_Witness ==
  /\ pc = "batchget_exec"
  /\ Len(sub_tasks) = 2
  /\ sub_tasks[1].done /\ sub_tasks[2].done
  /\ sub_tasks[1].sends = FLAGS_txn_op_max_retry + 1
  /\ sub_tasks[2].sends = 1

\* --------------------------------------------------------------- C19
\* The TxnCommit of the primary key was answered without a txn_result.
PrimaryCommitSucceeded ==
  /\ primary_rpc.method = "TxnCommit"
  /\ primary_rpc.keys = <<GetPrimaryKey>>
  /\ primary_resp = Response(<<>>)

\* C19: a TxnCommit for secondary keys exists only after the TxnCommit of
\* the primary key has returned success, and a Commit() that sends the
\* primary TxnCommit sets the state to Committed exactly when that request
\* succeeds, before any secondary TxnCommit is sent; the secondary commits
\* do not change the state.
C19_PrimaryCommitFirst ==
  /\ [](\A i \in DOMAIN sub_tasks :
          sub_tasks[i].rpc.method = "TxnCommit" =>
            /\ PrimaryCommitSucceeded
            /\ state = kCommitted
            /\ \A j \in DOMAIN sub_tasks[i].rpc.keys : sub_tasks[i].rpc.keys[j] # GetPrimaryKey)
  /\ [][(pc = "idle" /\ call' = "Commit" /\ primary_rpc'.method = "TxnCommit") =>
          /\ state' = kCommitted <=> primary_resp' = Response(<<>>)
          /\ \A i \in DOMAIN sub_tasks' : sub_tasks'[i].sends = 0 /\ ~sub_tasks'[i].done]_vars
  /\ [][pc = "commit_exec" => state' = state]_vars

\* A secondary TxnCommit has been sent, after the primary TxnCommit
\* succeeded and the state became Committed.
C19_Witness ==
  /\ pc = "commit_exec"
  /\ PrimaryCommitSucceeded
  /\ state = kCommitted
  /\ sub_tasks # <<>>
  /\ sub_tasks[1].rpc.method = "TxnCommit"
  /\ sub_tasks[1].done /\ sub_tasks[1].sends = 1

\* --------------------------------------------------------------- C20
\* The TxnPrewrite of the primary key went out with that key alone and was
\* answered without a txn_result.
PrimaryPrewriteAloneSucceeded ==
  /\ primary_rpc.method = "TxnPrewrite"
  /\ ~primary_rpc.try_one_pc
  /\ primary_rpc.keys = <<GetPrimaryKey>>
  /\ primary_resp = Response(<<>>)

\* C20: on the two-phase path a secondary TxnPrewrite exists only after the
\* TxnPrewrite of the primary key, sent alone, has succeeded; the prewrite
\* sub-tasks lead to PreCommitted only when every one of them succeeded; and
\* Commit() sends a TxnCommit only from the state PreCommitted.
C20_PrewriteBeforeCommit ==
  /\ [](\A i \in DOMAIN sub_tasks :
          sub_tasks[i].rpc.method = "TxnPrewrite" =>
            /\ PrimaryPrewriteAloneSucceeded
            /\ state = kPreCommitting
            /\ \A j \in DOMAIN sub_tasks[i].rpc.keys : sub_tasks[i].rpc.keys[j] # GetPrimaryKey)
  /\ [][(pc = "precommit_exec" /\ state' # state) =>
          /\ state' = kPreCommitted
          /\ \A i \in DOMAIN sub_tasks : sub_tasks[i].done /\ sub_tasks[i].status = OK]_vars
  /\ [][(pc = "idle" /\ call' = "Commit" /\ primary_rpc'.method = "TxnCommit") =>
          state = kPreCommitted]_vars
  /\ [](\A i \in DOMAIN sub_tasks : sub_tasks[i].rpc.method = "TxnCommit" => call = "Commit")

\* PreCommit() has returned OK on the two-phase path: the primary key was
\* prewritten alone, then the secondary keys, and the state is PreCommitted.
C20_Witness ==
  /\ call = "PreCommit" /\ pc = "idle" /\ ret = OK
  /\ PrimaryPrewriteAloneSucceeded
  /\ MutationsSize > 1
  /\ state = kPreCommitted

\* --------------------------------------------------------------- C21
\* C21: a PreCommit() that meets a write conflict, the state being
\* PreCommitting, leaves the transaction in the state RollingBack.
C21_WriteConflictToRollingBack ==
  (call = "PreCommit" /\ pc = "idle" /\ ret = TxnWriteConflict) => state = kRollbacking

\* --------------------------------------------------------------- C22
\* The scanner is about to yield a server entry whose key is the key of the
\* first buffered mutation of the range, nothing has been returned yet and
\* the limit leaves room for every key.
BufferedKeyEqualsServerKey ==
  /\ pc = "scan"
  /\ ScanCursor.scanner # NoScanner
  /\ ScanCursor.scanner.rest # <<>>
  /\ ScanCursor.local_mutations # <<>>
  /\ ScanCursor.local_mutations[1].key = ScanCursor.scanner.rest[1].key
  /\ out_kvs = <<>>
  /\ args.limit = MaxLimit

\* C22: when a server entry s and the next buffered mutation b have the same
\* key, the merge emits (s.key, b.value) for a Put and for a PutIfAbsent and
\* nothing for a Delete, and moves both cursors past the key, so that the
\* next server entry of the batch is merged against the next buffered
\* mutation.
C22_EqualKeysMerged ==
  [][(BufferedKeyEqualsServerKey /\ ScanNextBatch /\ ret' # NetworkError) =>
       LET b == ScanCursor.local_mutations[1]
       IN  /\ b.type \in {kPut, kPutIfAbsent} =>
                /\ out_kvs' # <<>>
                /\ out_kvs'[1] = [key |-> b.key, value |-> b.value]
           /\ b.type = kDelete => \A j \in DOMAIN out_kvs' : out_kvs'[j].key # b.key
           /\ \A p \in 2..Len(ScanCursor'.pending_kvs) :
                \A kv \in MergedServerEntry(ScanCursor.local_mutations, ScanCursor'.pending_kvs[p]) :
                  \E j \in DOMAIN out_kvs' : out_kvs'[j] = kv]_vars

\* --------------------------------------------------------------- C23
\* A step that merges a new server batch into the output.
BatchMerged ==
  /\ pc = "scan"
  /\ ScanNextBatch
  /\ ScanCursor'.scanner.rest # ScanCursor.scanner.rest

\* The key has no buffered mutation in the cursor's local_mutations.
Unbuffered(c, k) == \A m \in DOMAIN c.local_mutations : c.local_mutations[m].key # k

\* C23: every server entry the merge has gone through whose key has no
\* buffered mutation is in the output exactly once, with the key and the
\* value of the server, whatever keys are buffered.
C23_UnbufferedServerEntryEmittedOnce ==
  [][BatchMerged =>
       \A p \in 1..ScanCursor'.pending_offset :
         LET kv == ScanCursor'.pending_kvs[p]
         IN  Unbuffered(ScanCursor, kv.key) =>
               /\ \E j \in DOMAIN out_kvs' : out_kvs'[j] = kv
               /\ \A i, j \in DOMAIN out_kvs' :
                    (out_kvs'[i].key = kv.key /\ out_kvs'[j].key = kv.key) => i = j]_vars

\* --------------------------------------------------------------- C24
\* A limit that no scan of the key space reaches.
NoLimit == NumKeys + 1

\* What one Scan() with NoLimit merges out of the batches from the i-th on:
\* each batch goes through ProcessScanState in one piece.
RECURSIVE SingleScanFrom(_, _)
SingleScanFrom(c, i) ==
  IF i > Len(c.batches) THEN [out |-> <<>>, fatal |-> FALSE]
  ELSE LET p == ProcessFrom([c EXCEPT !.pending_kvs = c.batches[i]], NoLimit, <<>>, 0, 0, FALSE)
           rest == SingleScanFrom(c, i + 1)
       IN  [out |-> p.out \o rest.out, fatal |-> p.fatal \/ rest.fatal]

\* The loop of a Scan() ends with the cursor drained, after calls that all
\* had the same limit L >= 1 and did not fail, over batches that a single
\* Scan() merges without aborting.
ResumedScanDrained ==
  /\ ScanDone
  /\ ~ScanCursor.irregular
  /\ ScanCursor.limits # {0}
  /\ ~SingleScanFrom(ScanCursor, 1).fatal

\* C24: the results of the repeated Scan(a, b, L) calls that drain a cursor,
\* put end to end, are the result of a single Scan() of the range whose limit
\* is never reached, for every L >= 1, and hold no key twice.
C24_ResumedScanEqualsSingleScan ==
  [][ResumedScanDrained =>
       /\ ScanCursor.emitted = SingleScanFrom(ScanCursor, 1).out
       /\ \A i, j \in DOMAIN ScanCursor.emitted :
            ScanCursor.emitted[i].key = ScanCursor.emitted[j].key => i = j]_vars

\* --------------------------------------------------------------- C25
\* The running Scan() still has its cursor after the step.
CursorKept == HasScanState(args.start_key, args.end_key)'

\* The step clears the scanner of the running cursor.
ScannerCleared ==
  /\ pc = "scan"
  /\ ScanCursor.scanner # NoScanner
  /\ CursorKept
  /\ ScanCursor'.scanner = NoScanner

\* The step ends a Scan() with OK while next_key is still inside the range.
ReturnsInsideRange ==
  /\ call' = "Scan" /\ pc' = "idle" /\ ret' = OK
  /\ ~(pc = "scan" /\ ScanCursor.next_key >= args.end_key)

\* C25: a scanner is cleared only when it has no more, and next_key is then
\* the end of its region, from where the scan goes on; the cursor is erased
\* exactly by the step that ends the loop with next_key >= end; and a call
\* that returns because the limit is reached keeps the cursor with its open
\* scanner and its pending batch.
C25_CursorLifecycle ==
  /\ [][ScannerCleared =>
          /\ ~ScanCursor.scanner.has_more
          /\ ScanCursor'.next_key = ScanCursor.scanner.region_end
          /\ pc' = "scan"]_vars
  /\ [][(pc = "scan" /\ ScanCursor.next_key >= args.end_key) =>
          /\ scan_states' = scan_states \ {ScanCursor}
          /\ ~CursorKept
          /\ ret' = OK /\ pc' = "idle"]_vars
  /\ [][(pc = "scan" /\ ScanCursor.next_key < args.end_key) => CursorKept]_vars
  /\ [][ReturnsInsideRange =>
          /\ Len(out_kvs') = args'.limit
          /\ CursorKept
          /\ ScanCursor'.scanner # NoScanner
          /\ ScanCursor'.pending_kvs # <<>>]_vars

\* A scan that has crossed from one shard into the next returned at its
\* limit: the cursor is kept with the open scanner of the second shard and
\* its pending batch.
C25_Witness ==
  /\ call = "Scan" /\ pc = "idle" /\ ret = OK
  /\ args.limit >= 1 /\ Len(out_kvs) = args.limit
  /\ HasScanState(args.start_key, args.end_key)
  /\ ~ScanCursor.irregular
  /\ Len(ScanCursor.batches) = 2
  /\ ScanCursor.batches[1][1].key < ScanCursor.next_key
  /\ ScanCursor.scanner # NoScanner
  /\ ScanCursor.scanner.region_end = args.end_key
  /\ ScanCursor.pending_kvs = ScanCursor.batches[2]

\* --------------------------------------------------------------- C26
\* The step is a Get() that sent TxnGet for a key the buffer does not hold.
GetSentRpc ==
  /\ call' = "Get" /\ pc = "idle" /\ pc' = "idle"
  /\ primary_rpc'.method = "TxnGet"

\* The answer that ended the loop of that Get() carries a lock.
GetEndedOnLock == primary_resp'.sent /\ primary_resp'.txn_result # <<>>
                    /\ CheckTxnResultInfo(primary_resp'.txn_result[1]) = TxnLockConflict

\* The answer that ended the loop of that Get() carries no txn_result.
GetEndedLockFree == primary_resp'.sent /\ primary_resp'.txn_result = <<>>

\* C26: a Get() of an unbuffered key sends TxnGet for that key at start_ts;
\* a send follows another one only after a lock that ResolveLock reported as
\* resolved, with a retry left; the response without a lock that ends the
\* loop gives the value Get() returns (NotFound when it is empty); and a lock
\* ResolveLock did not resolve ends the loop with the resolver's status.
C26_GetResolvesLockAndRetries ==
  /\ [][GetSentRpc =>
          /\ primary_rpc'.keys = args'.keys
          /\ primary_rpc'.start_ts = start_ts
          /\ mutation_map[args'.keys[1]].type = kNone
          /\ primary_sends' \in 1..(FLAGS_txn_op_max_retry + 1)
          /\ GetEndedLockFree =>
               /\ ret' \in {OK, NotFound}
               /\ ret' = OK => out_kvs' = <<[key |-> args'.keys[1], value |-> ServerValue]>>
               /\ ret' = NotFound => out_kvs' = <<>>
          /\ (GetEndedOnLock /\ ResolveLock(primary_resp'.txn_result[1]) # OK) =>
               /\ ret' = ResolveLock(primary_resp'.txn_result[1])
               /\ out_kvs' = <<>>]_vars
  /\ \A run \in DoTxnGetRuns : \A i \in 1..(Len(run) - 1) :
       /\ run[i].sent
       /\ run[i].txn_result # <<>>
       /\ CheckTxnResultInfo(run[i].txn_result[1]) = TxnLockConflict
       /\ ResolveLock(run[i].txn_result[1]) = OK
       /\ NeedRetryAndInc(i - 1)

\* A Get() whose first TxnGet met a lock sent it again and returned the
\* value of the second response.
C26_Witness ==
  /\ call = "Get" /\ pc = "idle"
  /\ primary_rpc.method = "TxnGet"
  /\ primary_sends = 2
  /\ primary_resp = [sent |-> TRUE, txn_result |-> <<>>]
  /\ ret = OK
  /\ out_kvs = <<[key |-> args.keys[1], value |-> ServerValue]>>

\* --------------------------------------------------------------- C27
\* The step sends no RPC, looks no region up and asks for no timestamp.
NothingRequested ==
  /\ primary_rpc' = NoRpc /\ primary_sends' = 0 /\ primary_resp' = NoResp
  /\ sub_tasks' = <<>>
  /\ is_one_pc' = is_one_pc
  /\ tso' = tso /\ commit_ts' = commit_ts /\ start_ts' = start_ts

\* C27: with an empty buffer PreCommit() returns OK and leaves the state at
\* PreCommitted, and a Commit() that follows it with the buffer still empty
\* returns OK and leaves the state at Committed; neither sends an RPC, looks
\* a region up or asks for a timestamp.
C27_EmptyBufferCommitsWithoutRpc ==
  /\ [][(pc = "idle" /\ call' = "PreCommit" /\ IsEmpty) =>
          /\ ret' = OK /\ pc' = "idle"
          /\ state' = kPreCommitted
          /\ NothingRequested]_vars
  /\ [][(pc = "idle" /\ call = "PreCommit" /\ call' = "Commit" /\ IsEmpty
           /\ state = kPreCommitted) =>
          /\ ret' = OK /\ pc' = "idle"
          /\ state' = kCommitted
          /\ NothingRequested]_vars

\* A transaction that buffered nothing is Committed after PreCommit() and
\* Commit(), with no commit timestamp taken.
C27_Witness ==
  /\ call = "Commit" /\ pc = "idle" /\ ret = OK
  /\ state = kCommitted
  /\ IsEmpty
  /\ commit_ts = 0
  /\ primary_rpc = NoRpc /\ sub_tasks = <<>>

\* --------------------------------------------------------------- C28
ShardWriteMethods == {"TxnPrewrite", "TxnCommit", "TxnBatchRollback"}

\* C28: every TxnPrewrite, TxnCommit and TxnBatchRollback request, that of
\* the primary key and that of every sub-task, carries at most
\* FLAGS_txn_max_batch_count mutations or keys.
C28_RequestsWithinMaxBatchCount ==
  /\ primary_rpc.method \in ShardWriteMethods =>
       Len(primary_rpc.keys) <= FLAGS_txn_max_batch_count
  /\ \A i \in DOMAIN sub_tasks :
       sub_tasks[i].rpc.method \in ShardWriteMethods =>
         Len(sub_tasks[i].rpc.keys) <= FLAGS_txn_max_batch_count

\* --------------------------------------------------------------- C30
\* The step is the coordinator going on after ParallelExecutor::Execute.
FanOutJoined == pc \in {"precommit_exec", "batchget_exec"} /\ pc' = "idle"

\* C30: PreCommit() and BatchGet() go on after the fan-out only when every
\* sub-task has finished, and return the status of the failed sub-task with
\* the lowest index (OK when none failed), whatever order the sub-tasks ran
\* and finished in.
C30_LowestIndexFailureReturned ==
  [][FanOutJoined =>
       /\ \A i \in DOMAIN sub_tasks : sub_tasks[i].done
       /\ (\A i \in DOMAIN sub_tasks : sub_tasks[i].status = OK) => ret' = OK
       /\ \A i \in DOMAIN sub_tasks :
            (/\ sub_tasks[i].status # OK
             /\ \A j \in 1..(i - 1) : sub_tasks[j].status = OK) => ret' = sub_tasks[i].status]_vars

\* A BatchGet() over two regions whose two sub-tasks failed with different
\* statuses returned the status of the first.
C30_Witness ==
  /\ call = "BatchGet" /\ pc = "idle"
  /\ Len(sub_tasks) = 2
  /\ sub_tasks[1].status # OK /\ sub_tasks[2].status # OK
  /\ sub_tasks[1].status # sub_tasks[2].status
  /\ ret = sub_tasks[1].status

\* --------------------------------------------------------------- C29
\* PreCommit() has sent the primary TxnPrewrite and the response that ended
\* its loop contains a write conflict.
PrimaryPrewriteMetWriteConflict ==
  /\ call = "PreCommit"
  /\ primary_rpc.method = "TxnPrewrite"
  /\ HasWriteConflict(primary_resp)

\* In every run of the loop a response with a write conflict is the last
\* one: no TxnPrewrite is sent after it.
WriteConflictEndsRun(runs) ==
  \A run \in runs : \A i \in DOMAIN run : HasWriteConflict(run[i]) => i = Len(run)

\* C29: a TxnPrewrite response that contains a write conflict, with or
\* without lock conflicts in the same response, is the last one of its loop
\* and gives the status TxnWriteConflict: to the sub-task that got it, and
\* to PreCommit() when the primary prewrite got it.
C29_WriteConflictNeverRetried ==
  /\ WriteConflictEndsRun(PrimaryPrewriteRuns)
  /\ WriteConflictEndsRun(SubTaskPrewriteRuns)
  /\ \A run \in SubTaskPrewriteRuns :
       HasWriteConflict(run[Len(run)]) => SubTaskPrewriteLoop(run, 0).ret = TxnWriteConflict
  /\ PrimaryPrewriteMetWriteConflict => (pc = "idle" /\ ret = TxnWriteConflict)

\* --------------------------------------------------------------- C31
\* C31: the primary key, once the buffer has one, never changes, whatever is
\* written later; every TxnPrewrite (primary and secondary) names it as
\* primary_lock, and the primary TxnPrewrite, TxnCommit and TxnBatchRollback
\* carry it as their first key.
C31_PrimaryKeyStable ==
  /\ [][primary_key # NoKey => primary_key' = primary_key]_vars
  /\ [](primary_rpc.method = "TxnPrewrite" =>
          /\ primary_rpc.primary_lock = primary_key
          /\ primary_rpc.keys[1] = primary_key)
  /\ [](\A i \in DOMAIN sub_tasks :
          sub_tasks[i].rpc.method = "TxnPrewrite" =>
            /\ sub_tasks[i].rpc.primary_lock = primary_key
            /\ \A j \in DOMAIN sub_tasks[i].rpc.keys : sub_tasks[i].rpc.keys[j] # primary_key)
  /\ [](primary_rpc.method \in {"TxnCommit", "TxnBatchRollback"} =>
          primary_rpc.keys[1] = primary_key)

\* Commit() has sent the primary TxnCommit for a primary key that is not the
\* smallest buffered key: a smaller key was written after it.
C31_Witness ==
  /\ call = "Commit"
  /\ primary_rpc.method = "TxnCommit"
  /\ primary_rpc.keys = <<primary_key>>
  /\ \E k \in BufferedKeys : k < primary_key

\* --------------------------------------------------------------- C32
\* C32: an API call made while the state is Committed or RolledBack leaves
\* the state as it is and sends no TxnPrewrite, TxnCommit or
\* TxnBatchRollback, neither for the primary key nor in a fan-out.
C32_TerminalStatesAbsorbing ==
  [][(pc = "idle" /\ state \in {kCommitted, kRollbackted}) =>
       /\ state' = state
       /\ primary_rpc'.method \notin {"TxnPrewrite", "TxnCommit", "TxnBatchRollback"}
       /\ sub_tasks' = <<>>]_vars

\* --------------------------------------------------------------- C33
\* Commit() came back with the failure of the time oracle, of the primary
\* region lookup or of the primary TxnCommit transport.
CommitFailedInFlight ==
  /\ call = "Commit" /\ pc = "idle"
  /\ ret \notin {OK, TxnRolledBack, IllegalState}

\* C33: after such a Commit() the state is one that Commit() or Rollback()
\* accepts.
C33_FailedCommitNotStuck ==
  CommitFailedInFlight => (CommitAllowed(state) \/ RollbackAllowed(state))

\* --------------------------------------------------------------- C34
\* The keys of the TxnCommit requests of the running or last call.
CommitKeys ==
  (IF primary_rpc.method = "TxnCommit"
     THEN {primary_rpc.keys[j] : j \in DOMAIN primary_rpc.keys} ELSE {})
    \cup UNION {{sub_tasks[i].rpc.keys[j] : j \in DOMAIN sub_tasks[i].rpc.keys} :
                  i \in {t \in DOMAIN sub_tasks : sub_tasks[t].rpc.method = "TxnCommit"}}

\* C34: every key of a TxnCommit request has been carried by a TxnPrewrite
\* request that succeeded.
C34_CommitKeysPrewritten == CommitKeys \subseteq prewritten

\* --------------------------------------------------------------- C35
\* The places (sub-task, position) where a secondary request carries key k.
CarriedAt(tasks, k) ==
  {<<i, j>> \in (DOMAIN tasks) \X (1..NumKeys) :
     j \in DOMAIN tasks[i].rpc.keys /\ tasks[i].rpc.keys[j] = k}

\* C35: on the two-phase path the primary TxnPrewrite carries the primary
\* key alone, every other buffered key is carried by exactly one secondary
\* TxnPrewrite, addressed to the region the routing cache gives for the key,
\* and no request changes during the fan-out; PreCommit() returns OK only
\* when every one of them succeeded, so that every buffered key is
\* prewritten.
C35_PrewriteCoverage ==
  /\ [][(pc = "idle" /\ pc' = "precommit_exec") =>
          /\ primary_rpc'.keys = <<primary_key>>
          /\ ~primary_rpc'.try_one_pc
          /\ primary_resp' = Response(<<>>)
          /\ CarriedAt(sub_tasks', primary_key) = {}
          /\ \A k \in BufferedKeys \ {primary_key} : Cardinality(CarriedAt(sub_tasks', k)) = 1
          /\ \A i \in DOMAIN sub_tasks' :
               /\ sub_tasks'[i].rpc.method = "TxnPrewrite"
               /\ sub_tasks'[i].rpc.keys # <<>>
               /\ \A j \in DOMAIN sub_tasks'[i].rpc.keys :
                    sub_tasks'[i].rpc.keys[j] \in BufferedKeys
          /\ \E mc \in MetaCaches :
               /\ primary_rpc'.region = LookupRegionByKey(mc, primary_key)
               /\ \A i \in DOMAIN sub_tasks' : \A j \in DOMAIN sub_tasks'[i].rpc.keys :
                    /\ sub_tasks'[i].region = LookupRegionByKey(mc, sub_tasks'[i].rpc.keys[j])
                    /\ sub_tasks'[i].rpc.region = sub_tasks'[i].region]_vars
  /\ [][(pc = "precommit_exec" /\ pc' = "precommit_exec") =>
          \A i \in DOMAIN sub_tasks : sub_tasks'[i].rpc = sub_tasks[i].rpc]_vars
  /\ [][(pc = "precommit_exec" /\ pc' = "idle" /\ ret' = OK) =>
          /\ \A i \in DOMAIN sub_tasks : sub_tasks[i].status = OK /\ sub_tasks[i].sends >= 1
          /\ state' = kPreCommitted
          /\ BufferedKeys \subseteq prewritten']_vars

\* A first PreCommit() of two keys in two regions returned OK on the
\* two-phase path: both keys are prewritten.
C35_Witness ==
  /\ call = "PreCommit" /\ pc = "idle" /\ ret = OK
  /\ state = kPreCommitted
  /\ ~is_one_pc
  /\ primary_rpc.keys = <<primary_key>>
  /\ MutationsSize = 2
  /\ prewritten = BufferedKeys

\* --------------------------------------------------------------- C36
\* C36: a Get() whose last TxnGet response carries a lock conflict returns
\* TxnLockConflict; a BatchGet sub-task whose last TxnBatchGet response
\* carries one has the status TxnLockConflict and BatchGet() does not return
\* OK; also when ResolveLock returned OK each time and the retries ran out.
C36_LockedResponseNotData ==
  /\ (call = "Get" /\ pc = "idle" /\ primary_rpc.method = "TxnGet"
        /\ primary_resp.sent /\ primary_resp.txn_result # <<>>
        /\ CheckTxnResultInfo(primary_resp.txn_result[1]) = TxnLockConflict)
       => ret = TxnLockConflict
  /\ call = "BatchGet" =>
       \A i \in DOMAIN sub_tasks :
         (/\ sub_tasks[i].done
          /\ sub_tasks[i].txn_result # <<>>
          /\ CheckTxnResultInfo(sub_tasks[i].txn_result[1]) = TxnLockConflict)
           => /\ sub_tasks[i].status = TxnLockConflict
              /\ pc = "idle" => ret # OK

\* --------------------------------------------------------------- C37
\* The server keys the cursor has received in its batches.
ReceivedKeys(c) == {c.batches[b][e].key : <<b, e>> \in
                      {<<b, e>> \in (DOMAIN c.batches) \X (1..ScanBatchSize) :
                         e \in DOMAIN c.batches[b]}}

\* C37: when the scan of a range ends, every buffered Put or PutIfAbsent of
\* the range whose key is larger than every server key received (or when
\* none was received) has been emitted with its buffered value.
C37_TrailingBufferedKeysEmitted ==
  [][(pc = "scan" /\ ScanCursor.next_key >= args.end_key /\ ~ScanCursor.irregular) =>
       \A m \in DOMAIN ScanCursor.local_mutations :
         LET mutation == ScanCursor.local_mutations[m]
         IN  (/\ mutation.type \in {kPut, kPutIfAbsent}
              /\ \A k \in ReceivedKeys(ScanCursor) : k < mutation.key)
               => \E i \in DOMAIN ScanCursor.emitted :
                    /\ ScanCursor.emitted[i].key = mutation.key
                    /\ ScanCursor.emitted[i].value = mutation.value]_vars

\* C38: scan cursors of different ranges are independent: a Scan() over
\* (start, end) that finds a cursor under its state_key finds one that a
\* Scan() over the same (start, end) created, never the cursor of another
\* range, ranges with equal concatenated bounds included.
C38_CursorsOfRangesIndependent ==
  [][\A c \in scan_states :
       (/\ call' = "Scan"
        /\ ret' # InvalidArgument
        /\ c.state_key = StateKey(args'.start_key, args'.end_key))
       => c.range = <<args'.start_key, args'.end_key>>]_vars

C40_NoRequestWithoutStartTs ==
  /\ primary_sends > 0 => primary_rpc.start_ts # 0
  /\ \A i \in DOMAIN sub_tasks : sub_tasks[i].sends > 0 => sub_tasks[i].rpc.start_ts # 0
  /\ (call = "Begin" /\ ret # OK /\ start_ts = 0) => state = kInit
====
